---------------------------- MODULE Spec2Model ----------------------------
(***************************************************************************)
(* A model of PyFracPaQ's stress projection engine, its directional       *)
(* aggregator (the stress roses) and the part of the main window that      *)
(* decides when they are computed (src/pyfracpaq/gui/main_window.py).      *)
(*                                                                         *)
(* Numbers.  The code computes in 64-bit floats; the model computes        *)
(* exactly, in integers and reduced fractions <<num, den>> with den > 0:   *)
(*   - angles are whole degrees (multiples of 5);                          *)
(*   - radians are counted in units of pi/180, so that Pi = 180;           *)
(*   - sin and cos come from a table in hundredths (Sin100);               *)
(*   - stresses are whole MPa, sigma_n and tau are kept in units of        *)
(*     1/200 MPa (the 0.5 and the table's 1/100);                          *)
(*   - the friction coefficient is kept in hundredths (2 decimals in the   *)
(*     spin box).                                                          *)
(***************************************************************************)
EXTENDS Integers, Sequences, FiniteSets, TLC

VARIABLES
    segments,        \* MainWindow._segments: the X-angle (angle_deg) of each loaded segment
    flip_x,          \* MainWindow._flip_x
    flip_y,          \* MainWindow._flip_y
    sp_sigma1,       \* value of the spin box sp_sigma1, MPa
    sp_sigma2,       \* value of the spin box sp_sigma2, MPa
    sp_angle,        \* value of the spin box sp_angle, degrees
    sp_cohesion,     \* value of the spin box sp_cohesion, MPa
    sp_pore,         \* value of the spin box sp_pore, MPa
    sp_fric,         \* value of the spin box sp_fric, in hundredths
    chk,             \* checked state of the four fracture-stability check boxes
    edit_filename,   \* text of edit_filename
    preview_enabled, \* btn_preview.isEnabled()
    tabs_enabled,    \* tabs.isEnabled()
    flip_enabled,    \* isEnabled() of the flip buttons
    run_enabled,     \* btn_run.isEnabled()
    plot_windows,    \* MainWindow._plot_windows: key -> window (visible, what it shows)
    clicks,          \* number of user actions so far
    rb_node,         \* rb_node.isChecked(); rb_image is checked when it is not
    hough_enabled,   \* isEnabled() of the four Hough fields
    map_inv,         \* canvas_map.ax: <<xaxis_inverted(), yaxis_inverted()>> of the preview
    btn_flip,        \* isChecked() of <<btn_flipx_left, btn_flipy_left>>
    flip_label,      \* the flips _flip_label names in the status bar, as <<X, Y>>
    chk_traces_segments, \* chk_traces_segments.isChecked()
    chk_show_nodes,  \* chk_show_nodes: [checked, enabled]
    chk_traces_by_len, \* chk_traces_by_len.isChecked(); the other plain boxes behave alike
    messages,        \* the message boxes shown so far, by title
    plot,            \* the result of the last engine function applied (engine specification)
    probe            \* an azimuth and the flips applied to it (flip specification)

vars == <<segments, flip_x, flip_y, sp_sigma1, sp_sigma2, sp_angle, sp_cohesion,
          sp_pore, sp_fric, chk, edit_filename, preview_enabled, tabs_enabled,
          flip_enabled, run_enabled, plot_windows, clicks, rb_node, hough_enabled,
          map_inv, btn_flip, flip_label, chk_traces_segments, chk_show_nodes,
          chk_traces_by_len, messages, plot, probe>>

params == <<sp_sigma1, sp_sigma2, sp_angle, sp_cohesion, sp_pore, sp_fric>>

\* the widgets of the left panel, the preview and the Maps tab beside the stress boxes
panel == <<rb_node, hough_enabled, map_inv, btn_flip, flip_label, chk_traces_segments,
           chk_show_nodes, chk_traces_by_len, messages>>

-----------------------------------------------------------------------------
(* Bounds and input domains *)

MaxSegs == 2

MaxClicks == 6

MaxFlips == 2

AngXs == {0, 65, 90}

Sigma1s == {100, 50}
Sigma2s == {50, 100, 0}
Thetas == {0, 35}
Cohesions == {0, 25}
Pores == {0, 10}
Frics == {60, 0, -50}

SegLists == UNION {[1..n -> AngXs] : n \in 0..MaxSegs}

\* azimuths in degrees, every 5 degrees round the circle
Azimuths == {5 * k : k \in 0..71}

-----------------------------------------------------------------------------
(* Exact arithmetic *)

Abs(x) == IF x < 0 THEN -x ELSE x

Min2(a, b) == IF a <= b THEN a ELSE b

RECURSIVE Gcd(_, _)
Gcd(a, b) == IF b = 0 THEN a ELSE Gcd(b, a % b)

\* the fraction n/d (d # 0), reduced, with a positive denominator
Frac(n, d) ==
    LET g == Gcd(Abs(n), Abs(d))
        s == IF d < 0 THEN -1 ELSE 1
    IN  <<(s * n) \div g, (s * d) \div g>>

RLeq(a, b) == a[1] * b[2] <= b[1] * a[2]
RLess(a, b) == a[1] * b[2] < b[1] * a[2]

RZero == <<0, 1>>
ROne == <<1, 1>>

RMaxOf(S) == CHOOSE x \in S : \A y \in S : RLeq(y, x)

RECURSIVE SumSeq(_)
SumSeq(s) == IF s = <<>> THEN 0 ELSE Head(s) + SumSeq(Tail(s))

Range(s) == {s[i] : i \in DOMAIN s}

\* sin of 0, 10, ..., 90 degrees in hundredths
SinTab == <<0, 17, 34, 50, 64, 77, 87, 94, 98, 100>>

\* math.sin(math.radians(d)) in hundredths, d a multiple of 10
Sin100(d) ==
    LET r == d % 360
    IN  IF r <= 90 THEN SinTab[(r \div 10) + 1]
        ELSE IF r <= 180 THEN SinTab[((180 - r) \div 10) + 1]
        ELSE IF r <= 270 THEN -SinTab[((r - 180) \div 10) + 1]
        ELSE -SinTab[((360 - r) \div 10) + 1]

\* math.cos(math.radians(d)) in hundredths, d a multiple of 10
Cos100(d) == Sin100(d + 90)

-----------------------------------------------------------------------------
(* Stress projection engine: MainWindow._compute_slip_arrays *)

\* variant: the X-axis angle is taken as the north azimuth
AngNFromEast(angX) == angX % 180

\* angN = (90.0 - angX) % 180.0
AngN(angX) == (90 - angX) % 180

\* angN = (180.0 - angN) % 180.0, the reflection applied for each set flip flag
FlipFold(angN) == (180 - angN) % 180

\* the two conditional reflections, flip-X first
FlipAngN(angN, fx, fy) ==
    LET a1 == IF fx THEN FlipFold(angN) ELSE angN
    IN  IF fy THEN FlipFold(a1) ELSE a1

\* variant: the deviatoric term without its factor 0.5
Sn200FullDeviator(sigma1, sigma2, alpha) ==
    100 * (sigma1 + sigma2) + 2 * (sigma1 - sigma2) * Cos100(2 * alpha)

\* sn = 0.5*(sigma1 + sigma2) + 0.5*(sigma1 - sigma2)*cos(radians(2*alpha)), in 1/200 MPa
Sn200(sigma1, sigma2, alpha) ==
    100 * (sigma1 + sigma2) + (sigma1 - sigma2) * Cos100(2 * alpha)

\* tau = -0.5*(sigma1 - sigma2)*sin(radians(2*alpha)), in 1/200 MPa
Tau200(sigma1, sigma2, alpha) ==
    -((sigma1 - sigma2) * Sin100(2 * alpha))

\* abs(tau)/abs(sn) if abs(sn) > 0 else 0.0
Ratio(tau, sn) == IF Abs(sn) > 0 THEN Frac(Abs(tau), Abs(sn)) ELSE RZero

\* ratios_theta: the display pass, with the flips and theta
RatiosTheta(segs, fx, fy, sigma1, sigma2, theta) ==
    [i \in 1..Len(segs) |->
        LET alpha == (FlipAngN(AngN(segs[i]), fx, fy) + 90) - theta
        IN  Ratio(Tau200(sigma1, sigma2, alpha), Sn200(sigma1, sigma2, alpha))]

\* variant: the reference pass reuses the display pass (theta and flips included)
RatiosOnePass(segs, fx, fy, sigma1, sigma2, theta) ==
    RatiosTheta(segs, fx, fy, sigma1, sigma2, theta)

\* ratios0: the reference pass, alpha0 = angN + 90, no flip, no theta
Ratios0(segs, fx, fy, sigma1, sigma2, theta) ==
    [i \in 1..Len(segs) |->
        LET alpha0 == AngN(segs[i]) + 90
        IN  Ratio(Tau200(sigma1, sigma2, alpha0), Sn200(sigma1, sigma2, alpha0))]

\* variant: the first reference ratio instead of the largest one
TsmaxFirst(ratios0) ==
    LET m == IF ratios0 # <<>> THEN ratios0[1] ELSE ROne
    IN  IF RLeq(m, RZero) THEN ROne ELSE m

\* Tsmax = max(ratios0) if ratios0 else 1.0; if Tsmax <= 0: Tsmax = 1.0
TsmaxOf(ratios0) ==
    LET m == IF ratios0 # <<>> THEN RMaxOf(Range(ratios0)) ELSE ROne
    IN  IF RLeq(m, RZero) THEN ROne ELSE m

\* variant: no clamp to [0, 1]
ClampSkipped(x) == x

\* max(0.0, min(1.0, x)) of the fraction x
Clamp01(x) ==
    LET lo == IF RLeq(ROne, x) THEN ROne ELSE x
    IN  IF RLeq(lo, RZero) THEN RZero ELSE lo

\* max(0.0, min(1.0, r / Tsmax))
TsNormOf(r, tsmax) == Clamp01(Frac(r[1] * tsmax[2], r[2] * tsmax[1]))

ComputeSlipArrays(segs, fx, fy, sigma1, sigma2, theta) ==
    LET n == Len(segs)
        angs == [i \in 1..n |-> FlipAngN(AngN(segs[i]), fx, fy)]
        alpha == [i \in 1..n |-> (angs[i] + 90) - theta]
        ratios_theta == RatiosTheta(segs, fx, fy, sigma1, sigma2, theta)
        ratios0 == Ratios0(segs, fx, fy, sigma1, sigma2, theta)
        Tsmax == TsmaxOf(ratios0)
    IN  [angs |-> angs,
         sigmans |-> [i \in 1..n |-> Sn200(sigma1, sigma2, alpha[i])],
         taus |-> [i \in 1..n |-> Tau200(sigma1, sigma2, alpha[i])],
         Tsmax |-> Tsmax,
         TsNorm |-> [i \in 1..n |-> TsNormOf(ratios_theta[i], Tsmax)]]

\* variant: the denominator without its fallback for sigma1 = sigma2
TdDenomUnguarded(sigma1, sigma2) == sigma1 - sigma2

\* denom = (sigma1 - sigma2) if abs(sigma1 - sigma2) > 1e-12 else 1.0
TdDenom(sigma1, sigma2) == IF Abs(sigma1 - sigma2) > 0 THEN sigma1 - sigma2 ELSE 1

\* td = max(0.0, min(1.0, (sigma1 - sn) / denom))
TdOf(sigma1, sigma2, sn) ==
    Clamp01(Frac(200 * sigma1 - sn, 200 * TdDenom(sigma1, sigma2)))

\* Sf = abs(sn) - pf - (abs(t) - C0)/mu_eff, mu_eff = mu if abs(mu) > 1e-12 else 1e-12.
\* The value is big * 10^12 + val MPa: big (in 1/200 MPa) is 0 unless mu_eff is the
\* 1e-12 substitute, and then it is -(abs(t) - C0).
SfOf(sn, t, C0, pf, mu) ==
    IF Abs(mu) > 0
    THEN [big |-> 0,
          val |-> Frac((Abs(sn) - 200 * pf) * mu - (Abs(t) - 200 * C0) * 100, 200 * mu)]
    ELSE [big |-> -(Abs(t) - 200 * C0),
          val |-> Frac(Abs(sn) - 200 * pf, 200)]

\* Sf <= 0: the 10^12 term decides unless it is zero (every val is far below 10^12)
SfLeqZero(sf) == IF sf.big # 0 THEN sf.big < 0 ELSE sf.val[1] <= 0

\* csf = 1 if (abs(t) >= (mu * (abs(sn) - pf) + C0)) else 0; both sides times 200*100
CsfOf(sn, t, C0, pf, mu) ==
    IF 100 * Abs(t) >= mu * (Abs(sn) - 200 * pf) + 100 * 200 * C0 THEN 1 ELSE 0

-----------------------------------------------------------------------------
(* Directional aggregator: the body shared by _plot_rose_slip, _plot_rose_dilation, *)
(* _plot_rose_susceptibility and _plot_rose_csf                                     *)

\* np.pi, in units of pi/180
Pi == 180

\* dir_bins = 36
DirBins == 36

\* np.deg2rad
Deg2Rad(a) == (a * Pi) \div 180

\* angs2 = angs + [((a + 180.0) % 360.0) for a in angs]
Mirror(angs) == angs \o [i \in 1..Len(angs) |-> (angs[i] + 180) % 360]

\* the scalar list duplicated unchanged: ts2 = TsNorm + TsNorm
Twice(vals) == vals \o vals

\* variant: flip-X reflects about the east axis offset (pi/2 - t)
RoseFlipXQuarter(t) == (Pi \div 2) - t

\* theta = (np.pi - theta)
RoseFlipX(t) == Pi - t

\* theta = (-theta)
RoseFlipY(t) == -t

\* variant: the flipped angle is reduced modulo pi instead of 2*pi
NormThetaHalfTurn(t) == (t + 2 * Pi) % Pi

\* variant: the flipped angle is not normalised
NormThetaSkipped(t) == t

\* theta = (theta + 2*np.pi) % (2*np.pi)
NormTheta(t) == (t + 2 * Pi) % (2 * Pi)

\* the rose's flip transform of an angle in radians: flip-X, then flip-Y, then normalise
RoseFlip(t0, fx, fy) ==
    LET t1 == IF fx THEN RoseFlipX(t0) ELSE t0
        t2 == IF fy THEN RoseFlipY(t1) ELSE t1
    IN  NormTheta(t2)

\* theta = np.deg2rad(angs2), then the flip transform, for one mirrored azimuth
RoseTheta(a, fx, fy) == RoseFlip(Deg2Rad(a), fx, fy)

\* theta_edges = np.linspace(0, 2*np.pi, dir_bins + 1)
ThetaEdges == [j \in 1..(DirBins + 1) |-> ((j - 1) * 2 * Pi) \div DirBins]

\* np.digitize(x, edges) for increasing edges: the number of edges <= x
Digitize(x, edges) == Cardinality({j \in DOMAIN edges : edges[j] <= x})

\* floor(sqrt(x)) for 0 <= x <= 10^6, by bisection: lo*lo <= x < hi*hi
RECURSIVE ISqrtIn(_, _, _)
ISqrtIn(x, lo, hi) ==
    IF hi - lo <= 1 THEN lo
    ELSE LET mid == (lo + hi) \div 2
         IN  IF mid * mid <= x THEN ISqrtIn(x, mid, hi) ELSE ISqrtIn(x, lo, mid)

ISqrt(x) == ISqrtIn(x, 0, 1001)

\* variant: radius proportional to the fraction instead of its square root
RadiusLinear(count, total) == (count * 1000) \div total

\* np.sqrt(frac) of the fraction count/total, in thousandths
RadiusOf(count, total) == ISqrt((count * 1000000) \div total)

\* counts.sum()
RECURSIVE SumCounts(_, _)
SumCounts(counts, i) == IF i < 0 THEN 0 ELSE counts[i] + SumCounts(counts, i - 1)

\* frac.max() as a count: the largest entry of counts
RECURSIVE MaxCount(_, _)
MaxCount(counts, i) ==
    IF i < 0 THEN 0
    ELSE LET m == MaxCount(counts, i - 1) IN IF counts[i] > m THEN counts[i] ELSE m

\* radii = np.sqrt(counts / total) if total > 0 else counts
RadiiOf(counts, total) ==
    IF total > 0
    THEN LET rad == [c \in 0..total |-> RadiusOf(c, total)]
         IN  [i \in DOMAIN counts |-> rad[counts[i]]]
    ELSE counts

\* the bins, given the bin index of every mirrored azimuth:
\* for i, val in zip(inds, vals2): if 0 <= i < dir_bins: counts[i] += 1
BinsOf(inds) ==
    LET counts == [i \in 0..(DirBins - 1) |->
                      Cardinality({k \in DOMAIN inds :
                                      0 <= inds[k] /\ inds[k] < DirBins /\ inds[k] = i})]
        total == SumCounts(counts, DirBins - 1)
    IN  [counts |-> counts,
         total |-> total,
         radii |-> RadiiOf(counts, total),
         max_frac |-> IF total > 0 THEN Frac(MaxCount(counts, DirBins - 1), total)
                      ELSE RZero]

\* the mirrored azimuths on a sector edge (multiples of 10 degrees) whose theta is
\* rounded below that edge: in 64-bit floats np.deg2rad(a), the flips and
\* (theta + 2*np.pi) % (2*np.pi) give a double smaller than the entry of theta_edges
\* that the exact value equals (10 -> 0.17453292519943275 < 0.17453292519943295).
\* For every other whole number of degrees the double lies in the exact sector.
BelowEdge(fx, fy) ==
    CASE ~fx /\ ~fy -> {10, 20, 50, 60, 100, 110, 120, 200, 210, 220, 230, 240}
      [] fx /\ ~fy -> {70, 80, 130, 150, 160, 170, 340}
      [] ~fx /\ fy -> {210, 250, 260, 290, 300, 310, 340, 350}
      [] OTHER -> {120, 190, 200, 230, 240, 280}

\* inds = np.digitize(theta, theta_edges) - 1 for one mirrored azimuth, on doubles:
\* a theta rounded below its edge falls in the sector before it
DigitizeTheta(a, fx, fy) ==
    LET i == Digitize(RoseTheta(a, fx, fy), ThetaEdges) - 1
    IN  IF a \in BelowEdge(fx, fy) THEN i - 1 ELSE i

\* angs2, theta, inds and the bins (lines 1446-1493 and their three copies)
RoseBins(angs, fx, fy) ==
    LET angs2 == Mirror(angs)
        theta == [k \in 1..Len(angs2) |-> RoseTheta(angs2[k], fx, fy)]
        inds == [k \in 1..Len(angs2) |-> DigitizeTheta(angs2[k], fx, fy)]
        b == BinsOf(inds)
    IN  [angs2 |-> angs2, theta |-> theta, inds |-> inds, counts |-> b.counts,
         total |-> b.total, radii |-> b.radii, max_frac |-> b.max_frac]

\* a + b on fractions
RAdd(a, b) == Frac(a[1] * b[2] + b[1] * a[2], a[2] * b[2])

\* means[i] after the first k rounds of
\* for i, val in zip(inds, vals2): if 0 <= i < dir_bins: means[i] += val
RECURSIVE BinSum(_, _, _, _)
BinSum(inds, vals2, i, k) ==
    IF k = 0 THEN RZero
    ELSE LET s == BinSum(inds, vals2, i, k - 1)
         IN  IF inds[k] = i THEN RAdd(s, vals2[k]) ELSE s

\* variant: the bin sum is not divided by the bin count
MeanUndivided(sum, count) == sum

\* one entry of np.divide(means, counts, out=np.zeros_like(means), where=counts>0)
MeanOf(sum, count) == IF count > 0 THEN Frac(sum[1], sum[2] * count) ELSE RZero

\* the means of all dir_bins bins; the sum of a bin without member is the initial 0
BinMeans(inds, vals2, counts) ==
    [i \in 0..(DirBins - 1) |->
        MeanOf(IF counts[i] > 0 THEN BinSum(inds, vals2, i, Len(inds)) ELSE RZero,
               counts[i])]

\* the same loop on susceptibilities, which carry the 1e12 term separately
RECURSIVE BinSumSf(_, _, _, _)
BinSumSf(inds, vals2, i, k) ==
    IF k = 0 THEN [big |-> 0, val |-> RZero]
    ELSE LET s == BinSumSf(inds, vals2, i, k - 1)
         IN  IF inds[k] = i
             THEN [big |-> s.big + vals2[k].big, val |-> RAdd(s.val, vals2[k].val)]
             ELSE s

SfMeanOf(sum, count) ==
    IF count > 0
    THEN [big |-> Frac(sum.big, count), val |-> Frac(sum.val[1], sum.val[2] * count)]
    ELSE [big |-> RZero, val |-> RZero]

BinMeansSf(inds, vals2, counts) ==
    [i \in 0..(DirBins - 1) |->
        SfMeanOf(IF counts[i] > 0 THEN BinSumSf(inds, vals2, i, Len(inds))
                 ELSE [big |-> 0, val |-> RZero],
                 counts[i])]

\* variant: a bin is CSF only when more than half of its members are
ClassStrict(mean) == IF RLess(<<1, 2>>, mean) THEN 1 ELSE 0

\* classes = (means >= 0.5).astype(int)
ClassOf(mean) == IF RLeq(<<1, 2>>, mean) THEN 1 ELSE 0

\* perc_levels = [1, 5, 10, 20, 30, 50]
PercLevels == <<1, 5, 10, 20, 30, 50>>

\* variant: the largest fraction is compared with the ladder without the factor 100
MaxPercUnscaled(max_frac) == max_frac

\* max_perc = max_frac * 100.0
MaxPerc(max_frac) == Frac(max_frac[1] * 100, max_frac[2])

\* max_perc <= pl
PercFits(max_perc, pl) == RLeq(max_perc, <<pl, 1>>)

RECURSIVE LadderLoop(_, _)
LadderLoop(max_perc, j) ==
    IF j > Len(PercLevels) THEN PercLevels[Len(PercLevels)]
    ELSE IF PercFits(max_perc, PercLevels[j]) THEN PercLevels[j]
    ELSE LadderLoop(max_perc, j + 1)

\* _plot_rose_slip: show_to_perc = perc_levels[-1]; for pl in perc_levels: if ...: break
ShowToPercLoop(max_frac) == LadderLoop(MaxPerc(max_frac), 1)

\* the other roses: next((pl for pl in perc_levels if max_perc <= pl), perc_levels[-1])
ShowToPercNext(max_frac) ==
    LET fit == {j \in DOMAIN PercLevels : PercFits(MaxPerc(max_frac), PercLevels[j])}
    IN  IF fit = {} THEN PercLevels[Len(PercLevels)]
        ELSE PercLevels[CHOOSE j \in fit : \A k \in fit : j <= k]

\* r_edge = float(np.sqrt(show_to)), in thousandths
REdge(show_to_perc) == ISqrt(show_to_perc * 10000)

-----------------------------------------------------------------------------
(* The plotters.  Each reads the segments, the flip flags and the spin boxes  *)
(* of the window (here the record c) and yields what it draws.                *)

\* what a plotter leaves when it returns before drawing, and an empty canvas
NoPlot == [kind |-> "none"]

\* self._segments, self._flip_x, self._flip_y and the sp_*.value() a plotter reads
Cfg == [segs |-> segments, fx |-> flip_x, fy |-> flip_y,
        sigma1 |-> sp_sigma1, sigma2 |-> sp_sigma2, theta |-> sp_angle,
        C0 |-> sp_cohesion, pf |-> sp_pore, mu |-> sp_fric]

SlipArrays(c) == ComputeSlipArrays(c.segs, c.fx, c.fy, c.sigma1, c.sigma2, c.theta)

\* Td = [max(0.0, min(1.0, (sigma1 - sn) / denom)) for sn in sigmans]
TdList(c) ==
    LET a == SlipArrays(c)
    IN  [i \in 1..Len(c.segs) |-> TdOf(c.sigma1, c.sigma2, a.sigmans[i])]

\* Sfs = [abs(sn) - pf - (abs(t) - C0) / mu_eff for sn, t in zip(sigmans, taus)]
SfList(c) ==
    LET a == SlipArrays(c)
    IN  [i \in 1..Len(c.segs) |-> SfOf(a.sigmans[i], a.taus[i], c.C0, c.pf, c.mu)]

\* csf = [1 if (abs(t) >= (mu * (abs(sn) - pf) + C0)) else 0 for sn, t in zip(sigmans, taus)]
CsfList(c) ==
    LET a == SlipArrays(c)
    IN  [i \in 1..Len(c.segs) |-> CsfOf(a.sigmans[i], a.taus[i], c.C0, c.pf, c.mu)]

PlotSlipTendency(c) ==
    IF c.segs = <<>> THEN NoPlot
    ELSE [kind |-> "slip_map", vals |-> SlipArrays(c).TsNorm]

PlotDilationTendency(c) ==
    IF c.segs = <<>> THEN NoPlot
    ELSE [kind |-> "dilation_map", vals |-> TdList(c)]

PlotSusceptibilityMap(c) ==
    IF c.segs = <<>> THEN NoPlot
    ELSE [kind |-> "susceptibility_map", vals |-> SfList(c)]

PlotCsfMap(c) ==
    IF c.segs = <<>> THEN NoPlot
    ELSE [kind |-> "csf_map", vals |-> CsfList(c)]

\* center and radius in 1/2 MPa; sigmans and taus as the plotter computes them
PlotMohrCircle(c) ==
    LET a == SlipArrays(c)
    IN  [kind |-> "mohr", sigmans |-> a.sigmans, taus |-> a.taus,
         center |-> c.sigma1 + c.sigma2, radius |-> Abs(c.sigma1 - c.sigma2),
         C0 |-> c.C0, pf |-> c.pf, mu |-> c.mu]

\* variant: the slip rose bins and draws also when there is no segment
PlotRoseSlipUnguarded(c) ==
    LET a == SlipArrays(c)
        b == RoseBins(a.angs, c.fx, c.fy)
    IN  [kind |-> "slip_rose", angs |-> a.angs, vals2 |-> Twice(a.TsNorm),
         bins |-> b, means |-> BinMeans(b.inds, Twice(a.TsNorm), b.counts),
         show_to_perc |-> ShowToPercLoop(b.max_frac),
         r_edge |-> REdge(ShowToPercLoop(b.max_frac))]

PlotRoseSlip(c) ==
    LET a == SlipArrays(c)
        b == RoseBins(a.angs, c.fx, c.fy)
    IN  IF a.angs = <<>> THEN NoPlot
        ELSE [kind |-> "slip_rose", angs |-> a.angs, vals2 |-> Twice(a.TsNorm),
              bins |-> b, means |-> BinMeans(b.inds, Twice(a.TsNorm), b.counts),
              show_to_perc |-> ShowToPercLoop(b.max_frac),
              r_edge |-> REdge(ShowToPercLoop(b.max_frac))]

PlotRoseDilation(c) ==
    LET a == SlipArrays(c)
        b == RoseBins(a.angs, c.fx, c.fy)
    IN  IF a.angs = <<>> THEN NoPlot
        ELSE [kind |-> "dilation_rose", angs |-> a.angs, vals2 |-> Twice(TdList(c)),
              bins |-> b, means |-> BinMeans(b.inds, Twice(TdList(c)), b.counts),
              show_to_perc |-> ShowToPercNext(b.max_frac),
              r_edge |-> REdge(ShowToPercNext(b.max_frac))]

PlotRoseSusceptibility(c) ==
    LET a == SlipArrays(c)
        b == RoseBins(a.angs, c.fx, c.fy)
    IN  IF a.angs = <<>> THEN NoPlot
        ELSE [kind |-> "susceptibility_rose", angs |-> a.angs, vals2 |-> Twice(SfList(c)),
              bins |-> b, means |-> BinMeansSf(b.inds, Twice(SfList(c)), b.counts),
              show_to_perc |-> ShowToPercNext(b.max_frac),
              r_edge |-> REdge(ShowToPercNext(b.max_frac))]

\* the 0/1 flags as fractions, for the bin sums
FlagsAsFractions(flags) == [k \in DOMAIN flags |-> <<flags[k], 1>>]

PlotRoseCsf(c) ==
    LET a == SlipArrays(c)
        b == RoseBins(a.angs, c.fx, c.fy)
        means == BinMeans(b.inds, FlagsAsFractions(Twice(CsfList(c))), b.counts)
    IN  IF a.angs = <<>> THEN NoPlot
        ELSE [kind |-> "csf_rose", angs |-> a.angs, vals2 |-> Twice(CsfList(c)),
              bins |-> b, means |-> means,
              classes |-> [i \in DOMAIN means |-> ClassOf(means[i])],
              show_to_perc |-> ShowToPercNext(b.max_frac),
              r_edge |-> REdge(ShowToPercNext(b.max_frac))]

-----------------------------------------------------------------------------
(* The main window: construction, and the handlers that reach the plotters *)

\* the keys of the stress plot windows action_run opens, by check box
GroupKeys(g) ==
    CASE g = "slip" -> <<"slip_tendency_map", "slip_tendency_mohr", "slip_tendency_rose">>
      [] g = "dilation" -> <<"dilation_tendency_map", "dilation_tendency_mohr",
                             "dilation_tendency_rose">>
      [] g = "suscept" -> <<"susceptibility_map", "susceptibility_mohr",
                            "susceptibility_rose">>
      [] g = "crit" -> <<"csf_map", "csf_mohr", "csf_rose">>

\* chk_slip, chk_dilation, chk_suscept, chk_crit, in the order action_run reads them
Groups == <<"slip", "dilation", "suscept", "crit">>

WindowKeys == UNION {Range(GroupKeys(Groups[j])) : j \in DOMAIN Groups}

\* the keys of the two trace-map windows action_run opens for chk_traces_segments
TracesKeys == {"traces_nodes", "traces_segments"}

\* every key _plot_windows can hold
PlotKeys == WindowKeys \cup TracesKeys

\* _plot_traces_with_nodes (nodes) and _plot_traces_only: the trace map of the segments
PlotTraces(c, nodes) == [kind |-> "tracemap", segs |-> c.segs, nodes |-> nodes]

\* the plotter action_run hands to _show_plot_window for each key
Plotter(key, c) ==
    CASE key = "slip_tendency_map" -> PlotSlipTendency(c)
      [] key = "slip_tendency_rose" -> PlotRoseSlip(c)
      [] key = "dilation_tendency_map" -> PlotDilationTendency(c)
      [] key = "dilation_tendency_rose" -> PlotRoseDilation(c)
      [] key = "susceptibility_map" -> PlotSusceptibilityMap(c)
      [] key = "susceptibility_rose" -> PlotRoseSusceptibility(c)
      [] key = "csf_map" -> PlotCsfMap(c)
      [] key = "csf_rose" -> PlotRoseCsf(c)
      [] key = "traces_nodes" -> PlotTraces(c, TRUE)
      [] key = "traces_segments" -> PlotTraces(c, FALSE)
      [] OTHER -> PlotMohrCircle(c)

\* polar=True in action_run's call
IsPolar(key) == key \in {"slip_tendency_rose", "dilation_tendency_rose",
                         "susceptibility_rose", "csf_rose"}

\* a plot window that was never created: self._plot_windows.get(key) is None
NoWindow == [created |-> FALSE, visible |-> FALSE, shown |-> NoPlot,
             title_flip |-> <<FALSE, FALSE>>, axis_inv |-> <<FALSE, FALSE>>]

\* axes inverted by _apply_axis_flip_visual when the plotter calls it (the maps)
PlotAxisInv(key, c) ==
    IF key \in {"slip_tendency_map", "dilation_tendency_map", "susceptibility_map", "csf_map"}
                \cup TracesKeys
    THEN <<c.fx, c.fy>> ELSE <<FALSE, FALSE>>

\* variant: Run replots a window even when it is already visible
ShowPlotWindowAlways(win, key, c) ==
    [created |-> TRUE, visible |-> TRUE, shown |-> Plotter(key, c),
     title_flip |-> <<c.fx, c.fy>>, axis_inv |-> PlotAxisInv(key, c)]

\* _show_plot_window: a visible window is only raised; otherwise the window is
\* created if need be, titled with the flip suffix, cleared, plotted and shown
ShowPlotWindow(win, key, c) ==
    IF win.created /\ win.visible THEN win
    ELSE [created |-> TRUE, visible |-> TRUE, shown |-> Plotter(key, c),
          title_flip |-> <<c.fx, c.fy>>, axis_inv |-> PlotAxisInv(key, c)]

\* _replot_map: ax.clear() puts the preview axes back to their default limits, so
\* neither axis is inverted, and plot_tracemap draws on them without any flip
ReplotMap(inv) == <<FALSE, FALSE>>

\* the files the user can pick.  read_traces_txt raises for a missing file and
\* returns no trace for a file without a valid line.
Files == {"one.txt", "two.txt", "empty.txt", "missing.txt"}

\* read_traces_txt, flattened as load_file does: [s for t in traces for s in t.segments]
ReadSegments(f) ==
    CASE f = "one.txt" -> <<45>>
      [] f = "two.txt" -> <<60, 0>>
      [] OTHER -> <<>>

\* tab_maps.findChildren(QCheckBox), as isChecked() by box: the four fracture-stability
\* boxes, chk_traces_segments, chk_show_nodes and chk_traces_by_len
MapsChecks(ch, ts, sn, tl) ==
    [g \in DOMAIN ch \cup {"traces_segments", "show_nodes", "traces_by_len"} |->
        CASE g = "traces_segments" -> ts
          [] g = "show_nodes" -> sn.checked
          [] g = "traces_by_len" -> tl
          [] OTHER -> ch[g]]

\* variant: Run needs only loaded segments
RunEnabledWithoutCheck(segs, ch) == segs # <<>>

\* _update_run_enabled: bool(self._segments) and any_checked
RunEnabled(segs, ch) == segs # <<>> /\ \E g \in DOMAIN ch : ch[g]

\* variant: the Hough fields stay disabled whatever the radio button
ToggleHoughFieldsOff(on) == FALSE

\* _toggle_hough_fields(on): setEnabled(on) for the four Hough fields
ToggleHoughFields(on) == on

\* _toggle_traces_options(on), for chk_show_nodes: enabled with the parent box,
\* unchecked when the parent box is unchecked
ToggleTracesOptions(sn, on) ==
    [enabled |-> on, checked |-> IF ~on THEN FALSE ELSE sn.checked]

\* variant: a failed load forgets the segments loaded before
LoadFailedCleared(segs) == <<>>

\* load_file returning after the message box: self._segments is not assigned
LoadFailed(segs) == segs

\* the title of the message box load_file shows for a file that gives no segments
LoadMessage(f) == IF f = "missing.txt" THEN "Error" ELSE "No data"

\* MainWindow.__init__ and the widget defaults of _build_left_panel and _build_right_panel
InitGui ==
    /\ segments = <<>>
    /\ flip_x = FALSE
    /\ flip_y = FALSE
    /\ sp_sigma1 = 100
    /\ sp_sigma2 = 50
    /\ sp_angle = 0
    /\ sp_cohesion = 0
    /\ sp_pore = 0
    /\ sp_fric = 60
    /\ chk = [g \in Range(Groups) |-> FALSE]
    /\ edit_filename = ""
    /\ preview_enabled = FALSE
    /\ tabs_enabled = FALSE
    /\ flip_enabled = FALSE
    /\ run_enabled = FALSE
    /\ plot_windows = [k \in PlotKeys |-> NoWindow]
    /\ clicks = 0
    /\ rb_node = TRUE
    /\ hough_enabled = FALSE
    /\ map_inv = <<FALSE, FALSE>>
    /\ btn_flip = <<FALSE, FALSE>>
    /\ flip_label = <<FALSE, FALSE>>
    /\ chk_traces_segments = FALSE
    /\ chk_show_nodes = [checked |-> FALSE, enabled |-> FALSE]
    /\ chk_traces_by_len = FALSE
    /\ messages = <<>>

Init ==
    /\ InitGui
    /\ plot = NoPlot
    /\ probe = [a |-> 0, t |-> 0, f |-> 0, hist |-> <<>>]

Click == clicks < MaxClicks /\ clicks' = clicks + 1

\* action_browse with a file chosen in the dialog
ActionBrowse(f) ==
    /\ Click
    /\ edit_filename' = f
    /\ preview_enabled' = TRUE
    /\ UNCHANGED <<segments, flip_x, flip_y, params, chk, tabs_enabled, flip_enabled,
                   run_enabled, plot_windows, plot, probe, panel>>

\* action_preview -> load_file: a failed read or an empty result shows a message box
\* and returns; a successful load stores the segments, enables the flip buttons and
\* the tabs, redraws the preview on cleared axes (_replot_map) and updates Run
ActionPreview ==
    /\ Click
    /\ preview_enabled
    /\ edit_filename # ""
    /\ IF ReadSegments(edit_filename) = <<>>
       THEN /\ segments' = LoadFailed(segments)
            /\ messages' = Append(messages, LoadMessage(edit_filename))
            /\ UNCHANGED <<tabs_enabled, flip_enabled, run_enabled, map_inv>>
       ELSE /\ segments' = ReadSegments(edit_filename)
            /\ flip_enabled' = TRUE
            /\ map_inv' = ReplotMap(map_inv)
            /\ tabs_enabled' = TRUE
            /\ run_enabled' = RunEnabled(segments', MapsChecks(chk, chk_traces_segments,
                                                              chk_show_nodes, chk_traces_by_len))
            /\ UNCHANGED messages
    /\ UNCHANGED <<flip_x, flip_y, params, chk, edit_filename, preview_enabled,
                   plot_windows, plot, probe, rb_node, hough_enabled, btn_flip, flip_label,
                   chk_traces_segments, chk_show_nodes, chk_traces_by_len>>

\* action_save_figures with a file name chosen: _replot_map, then savefig
ActionSaveFigures ==
    /\ Click
    /\ segments # <<>>
    /\ map_inv' = ReplotMap(map_inv)
    /\ UNCHANGED <<segments, flip_x, flip_y, params, chk, edit_filename, preview_enabled,
                   tabs_enabled, flip_enabled, run_enabled, plot_windows, plot, probe,
                   rb_node, hough_enabled, btn_flip, flip_label, chk_traces_segments,
                   chk_show_nodes, chk_traces_by_len, messages>>

\* a click on the radio button "Image file": rb_image.toggled(True)
SelectImageFile ==
    /\ Click
    /\ rb_node
    /\ rb_node' = FALSE
    /\ hough_enabled' = ToggleHoughFields(TRUE)
    /\ UNCHANGED <<segments, flip_x, flip_y, params, chk, edit_filename, preview_enabled,
                   tabs_enabled, flip_enabled, run_enabled, plot_windows, plot, probe,
                   map_inv, btn_flip, flip_label, chk_traces_segments, chk_show_nodes,
                   chk_traces_by_len, messages>>

\* a click on the radio button "Node file": rb_image.toggled(False)
SelectNodeFile ==
    /\ Click
    /\ ~rb_node
    /\ rb_node' = TRUE
    /\ hough_enabled' = ToggleHoughFields(FALSE)
    /\ UNCHANGED <<segments, flip_x, flip_y, params, chk, edit_filename, preview_enabled,
                   tabs_enabled, flip_enabled, run_enabled, plot_windows, plot, probe,
                   map_inv, btn_flip, flip_label, chk_traces_segments, chk_show_nodes,
                   chk_traces_by_len, messages>>

\* a click on one of the four fracture-stability check boxes: _update_run_enabled
ToggleCheck(g) ==
    /\ Click
    /\ tabs_enabled
    /\ chk' = [chk EXCEPT ![g] = ~@]
    /\ run_enabled' = RunEnabled(segments, MapsChecks(chk', chk_traces_segments,
                                                     chk_show_nodes, chk_traces_by_len))
    /\ UNCHANGED <<segments, flip_x, flip_y, params, edit_filename, preview_enabled,
                   tabs_enabled, flip_enabled, plot_windows, plot, probe, panel>>

\* a click on chk_traces_segments: _toggle_traces_options and _update_run_enabled
ToggleTracesSegments ==
    /\ Click
    /\ tabs_enabled
    /\ chk_traces_segments' = ~chk_traces_segments
    /\ chk_show_nodes' = ToggleTracesOptions(chk_show_nodes, chk_traces_segments')
    /\ run_enabled' = RunEnabled(segments, MapsChecks(chk, chk_traces_segments',
                                                     chk_show_nodes', chk_traces_by_len))
    /\ UNCHANGED <<segments, flip_x, flip_y, params, chk, edit_filename, preview_enabled,
                   tabs_enabled, flip_enabled, plot_windows, plot, probe, rb_node,
                   hough_enabled, map_inv, btn_flip, flip_label, chk_traces_by_len, messages>>

\* a click on chk_show_nodes, enabled only under a checked chk_traces_segments
ToggleShowNodes ==
    /\ Click
    /\ tabs_enabled
    /\ chk_show_nodes.enabled
    /\ chk_show_nodes' = [chk_show_nodes EXCEPT !.checked = ~@]
    /\ run_enabled' = RunEnabled(segments, MapsChecks(chk, chk_traces_segments,
                                                     chk_show_nodes', chk_traces_by_len))
    /\ UNCHANGED <<segments, flip_x, flip_y, params, chk, edit_filename, preview_enabled,
                   tabs_enabled, flip_enabled, plot_windows, plot, probe, rb_node,
                   hough_enabled, map_inv, btn_flip, flip_label, chk_traces_segments,
                   chk_traces_by_len, messages>>

\* a click on chk_traces_by_len: _update_run_enabled
ToggleTracesByLen ==
    /\ Click
    /\ tabs_enabled
    /\ chk_traces_by_len' = ~chk_traces_by_len
    /\ run_enabled' = RunEnabled(segments, MapsChecks(chk, chk_traces_segments,
                                                     chk_show_nodes, chk_traces_by_len'))
    /\ UNCHANGED <<segments, flip_x, flip_y, params, chk, edit_filename, preview_enabled,
                   tabs_enabled, flip_enabled, plot_windows, plot, probe, rb_node,
                   hough_enabled, map_inv, btn_flip, flip_label, chk_traces_segments,
                   chk_show_nodes, messages>>

\* the stress spin boxes are enabled while a fracture-stability box is checked
ParamsEnabled == tabs_enabled /\ \E g \in DOMAIN chk : chk[g]

\* the user edits one stress spin box; no handler is connected to valueChanged
EditParam ==
    /\ Click
    /\ ParamsEnabled
    /\ \/ \E v \in Sigma1s \ {sp_sigma1} :
            sp_sigma1' = v /\ UNCHANGED <<sp_sigma2, sp_angle, sp_cohesion, sp_pore, sp_fric>>
       \/ \E v \in Sigma2s \ {sp_sigma2} :
            sp_sigma2' = v /\ UNCHANGED <<sp_sigma1, sp_angle, sp_cohesion, sp_pore, sp_fric>>
       \/ \E v \in Thetas \ {sp_angle} :
            sp_angle' = v /\ UNCHANGED <<sp_sigma1, sp_sigma2, sp_cohesion, sp_pore, sp_fric>>
       \/ \E v \in Cohesions \ {sp_cohesion} :
            sp_cohesion' = v /\ UNCHANGED <<sp_sigma1, sp_sigma2, sp_angle, sp_pore, sp_fric>>
       \/ \E v \in Pores \ {sp_pore} :
            sp_pore' = v /\ UNCHANGED <<sp_sigma1, sp_sigma2, sp_angle, sp_cohesion, sp_fric>>
       \/ \E v \in Frics \ {sp_fric} :
            sp_fric' = v /\ UNCHANGED <<sp_sigma1, sp_sigma2, sp_angle, sp_cohesion, sp_pore>>
    /\ UNCHANGED <<segments, flip_x, flip_y, chk, edit_filename, preview_enabled,
                   tabs_enabled, flip_enabled, run_enabled, plot_windows, plot, probe, panel>>

\* _update_plot_window_titles and _apply_flip_to_open_plots, for the flags fx, fy:
\* every created window is retitled, every non-polar one has its axes inverted;
\* nothing is plotted again
FlipOpenPlots(wins, fx, fy) ==
    [k \in DOMAIN wins |->
        IF ~wins[k].created THEN wins[k]
        ELSE [wins[k] EXCEPT !.title_flip = <<fx, fy>>,
                             !.axis_inv = IF IsPolar(k) THEN @ ELSE <<fx, fy>>]]

\* _flip_title_suffix and _update_flip_indicator: the flips the text names
FlipParts(fx, fy) == <<fx, fy>>

\* _on_flip_x: the flag is toggled, the button follows it, the preview's X axis is
\* inverted once more (invert_xaxis), indicator, titles and open plots are updated
OnFlipX ==
    /\ Click
    /\ flip_enabled
    /\ flip_x' = ~flip_x
    /\ btn_flip' = <<flip_x', btn_flip[2]>>
    /\ map_inv' = <<~map_inv[1], map_inv[2]>>
    /\ flip_label' = FlipParts(flip_x', flip_y)
    /\ plot_windows' = FlipOpenPlots(plot_windows, flip_x', flip_y)
    /\ UNCHANGED <<segments, flip_y, params, chk, edit_filename, preview_enabled,
                   tabs_enabled, flip_enabled, run_enabled, plot, probe, rb_node,
                   hough_enabled, chk_traces_segments, chk_show_nodes, chk_traces_by_len,
                   messages>>

\* _on_flip_y
OnFlipY ==
    /\ Click
    /\ flip_enabled
    /\ flip_y' = ~flip_y
    /\ btn_flip' = <<btn_flip[1], flip_y'>>
    /\ map_inv' = <<map_inv[1], ~map_inv[2]>>
    /\ flip_label' = FlipParts(flip_x, flip_y')
    /\ plot_windows' = FlipOpenPlots(plot_windows, flip_x, flip_y')
    /\ UNCHANGED <<segments, flip_x, params, chk, edit_filename, preview_enabled,
                   tabs_enabled, flip_enabled, run_enabled, plot, probe, rb_node,
                   hough_enabled, chk_traces_segments, chk_show_nodes, chk_traces_by_len,
                   messages>>

\* the windows after action_run: _show_plot_window for every key of a checked box
RunWindows(wins, ch, c) ==
    [k \in DOMAIN wins |->
        IF \E g \in DOMAIN ch : ch[g] /\ k \in Range(GroupKeys(g))
        THEN ShowPlotWindow(wins[k], k, c)
        ELSE wins[k]]

\* the windows after the first step of action_run: with chk_traces_segments checked,
\* _show_plot_window for "traces_nodes" if chk_show_nodes is checked, else for
\* "traces_segments"
TracesWindows(wins, ts, sn, c) ==
    [k \in DOMAIN wins |->
        IF ts /\ k = (IF sn.checked THEN "traces_nodes" ELSE "traces_segments")
        THEN ShowPlotWindow(wins[k], k, c)
        ELSE wins[k]]

\* action_run (the Run button): without segments a message box and nothing else
ActionRun ==
    /\ Click
    /\ run_enabled
    /\ IF segments = <<>>
       THEN /\ messages' = Append(messages, "No data")
            /\ UNCHANGED plot_windows
       ELSE /\ plot_windows' = RunWindows(TracesWindows(plot_windows, chk_traces_segments,
                                                        chk_show_nodes, Cfg), chk, Cfg)
            /\ UNCHANGED messages
    /\ UNCHANGED <<segments, flip_x, flip_y, params, chk, edit_filename, preview_enabled,
                   tabs_enabled, flip_enabled, run_enabled, plot, probe, rb_node,
                   hough_enabled, map_inv, btn_flip, flip_label, chk_traces_segments,
                   chk_show_nodes, chk_traces_by_len>>

\* the user closes a plot window: it stays in _plot_windows, no longer visible
CloseWindow(k) ==
    /\ Click
    /\ plot_windows[k].visible
    /\ plot_windows' = [plot_windows EXCEPT ![k].visible = FALSE]
    /\ UNCHANGED <<segments, flip_x, flip_y, params, chk, edit_filename, preview_enabled,
                   tabs_enabled, flip_enabled, run_enabled, plot, probe, panel>>

Next ==
    \/ \E f \in Files : ActionBrowse(f)
    \/ ActionPreview
    \/ \E g \in Range(Groups) : ToggleCheck(g)
    \/ EditParam
    \/ OnFlipX
    \/ OnFlipY
    \/ ActionRun
    \/ \E k \in PlotKeys : CloseWindow(k)
    \/ SelectImageFile
    \/ SelectNodeFile
    \/ ToggleTracesSegments
    \/ ToggleShowNodes
    \/ ToggleTracesByLen
    \/ ActionSaveFigures

Spec == Init /\ [][Next]_vars

-----------------------------------------------------------------------------
(* The engine as pure functions: the inputs are drawn in the initial state and *)
(* each action applies one plotter to them.                                    *)

InitEngine ==
    /\ segments \in SegLists
    /\ flip_x \in BOOLEAN
    /\ flip_y \in BOOLEAN
    /\ sp_sigma1 \in Sigma1s
    /\ sp_sigma2 \in Sigma2s
    /\ sp_angle \in Thetas
    /\ sp_cohesion \in Cohesions
    /\ sp_pore \in Pores
    /\ sp_fric \in Frics
    /\ chk = [g \in Range(Groups) |-> FALSE]
    /\ edit_filename = ""
    /\ preview_enabled = FALSE
    /\ tabs_enabled = FALSE
    /\ flip_enabled = FALSE
    /\ run_enabled = FALSE
    /\ plot_windows = [k \in PlotKeys |-> NoWindow]
    /\ clicks = 0
    /\ rb_node = TRUE
    /\ hough_enabled = FALSE
    /\ map_inv = <<FALSE, FALSE>>
    /\ btn_flip = <<FALSE, FALSE>>
    /\ flip_label = <<FALSE, FALSE>>
    /\ chk_traces_segments = FALSE
    /\ chk_show_nodes = [checked |-> FALSE, enabled |-> FALSE]
    /\ chk_traces_by_len = FALSE
    /\ messages = <<>>
    /\ plot = NoPlot
    /\ probe = [a |-> 0, t |-> 0, f |-> 0, hist |-> <<>>]

inputs == <<segments, flip_x, flip_y, params, chk, edit_filename, preview_enabled,
            tabs_enabled, flip_enabled, run_enabled, plot_windows, clicks, probe, panel>>

ApplySlipTendency ==
    /\ plot = NoPlot
    /\ plot' = PlotSlipTendency(Cfg)
    /\ UNCHANGED inputs

ApplyDilationTendency ==
    /\ plot = NoPlot
    /\ plot' = PlotDilationTendency(Cfg)
    /\ UNCHANGED inputs

ApplySusceptibilityMap ==
    /\ plot = NoPlot
    /\ plot' = PlotSusceptibilityMap(Cfg)
    /\ UNCHANGED inputs

ApplyCsfMap ==
    /\ plot = NoPlot
    /\ plot' = PlotCsfMap(Cfg)
    /\ UNCHANGED inputs

ApplyMohrCircle ==
    /\ plot = NoPlot
    /\ plot' = PlotMohrCircle(Cfg)
    /\ UNCHANGED inputs

ApplyRoseSlip ==
    /\ plot = NoPlot
    /\ plot' = PlotRoseSlip(Cfg)
    /\ UNCHANGED inputs

ApplyRoseDilation ==
    /\ plot = NoPlot
    /\ plot' = PlotRoseDilation(Cfg)
    /\ UNCHANGED inputs

ApplyRoseSusceptibility ==
    /\ plot = NoPlot
    /\ plot' = PlotRoseSusceptibility(Cfg)
    /\ UNCHANGED inputs

ApplyRoseCsf ==
    /\ plot = NoPlot
    /\ plot' = PlotRoseCsf(Cfg)
    /\ UNCHANGED inputs


NextEngine ==
    \/ ApplySlipTendency
    \/ ApplyDilationTendency
    \/ ApplySusceptibilityMap
    \/ ApplyCsfMap
    \/ ApplyMohrCircle
    \/ ApplyRoseSlip
    \/ ApplyRoseDilation
    \/ ApplyRoseSusceptibility
    \/ ApplyRoseCsf

SpecEngine == InitEngine /\ [][NextEngine]_vars

-----------------------------------------------------------------------------
(* The axis-flip transform as a pure function: an azimuth is drawn in the     *)
(* initial state and each action applies one flip to it, both as the roses do *)
(* (t, in radians) and as the projection step does (f, folded into [0,180)).  *)

InitFlip ==
    /\ InitGui
    /\ plot = NoPlot
    /\ \E a \in Azimuths :
          probe = [a |-> a, t |-> Deg2Rad(a), f |-> a % 180, hist |-> <<>>]

ApplyFlipX ==
    /\ Len(probe.hist) < MaxFlips
    /\ probe' = [a |-> probe.a,
                 t |-> RoseFlip(probe.t, TRUE, FALSE),
                 f |-> FlipAngN(probe.f, TRUE, FALSE),
                 hist |-> Append(probe.hist, "X")]
    /\ UNCHANGED <<segments, flip_x, flip_y, params, chk, edit_filename, preview_enabled,
                   tabs_enabled, flip_enabled, run_enabled, plot_windows, clicks, plot, panel>>

ApplyFlipY ==
    /\ Len(probe.hist) < MaxFlips
    /\ probe' = [a |-> probe.a,
                 t |-> RoseFlip(probe.t, FALSE, TRUE),
                 f |-> FlipAngN(probe.f, FALSE, TRUE),
                 hist |-> Append(probe.hist, "Y")]
    /\ UNCHANGED <<segments, flip_x, flip_y, params, chk, edit_filename, preview_enabled,
                   tabs_enabled, flip_enabled, run_enabled, plot_windows, clicks, plot, panel>>

NextFlip == ApplyFlipX \/ ApplyFlipY

SpecFlip == InitFlip /\ [][NextFlip]_vars

-----------------------------------------------------------------------------
(* The plotters called directly, on inputs that put two segments into one bin.  *)
(* A division by zero in a plotter leaves the plotter with ZeroDivisionError.   *)

AngXsCall == {0, 25, 30}
Sigma1sCall == {100}
ThetasCall == {0, 90}
FricsCall == {60, 0}
SegListsCall == UNION {[1..n -> AngXsCall] : n \in 0..MaxSegs}

\* what a plotter leaves when a division by zero raises in it
ZeroDivisionError == [kind |-> "ZeroDivisionError"]

\* the denominators _compute_slip_arrays divides by: abs(sn) and abs(sn0) where the
\* guard abs(sn) > 0 lets the division happen, and Tsmax for every ratio
SlipDivisors(c) ==
    LET sn(i) == Sn200(c.sigma1, c.sigma2,
                       (FlipAngN(AngN(c.segs[i]), c.fx, c.fy) + 90) - c.theta)
        sn0(i) == Sn200(c.sigma1, c.sigma2, AngN(c.segs[i]) + 90)
    IN  {Abs(sn(i)) : i \in {j \in DOMAIN c.segs : Abs(sn(j)) > 0}}
        \cup {Abs(sn0(i)) : i \in {j \in DOMAIN c.segs : Abs(sn0(j)) > 0}}
        \cup (IF c.segs # <<>>
              THEN {TsmaxOf(Ratios0(c.segs, c.fx, c.fy, c.sigma1, c.sigma2, c.theta))[1]}
              ELSE {})

\* the denominators of the binning: counts where counts > 0, total where total > 0
RoseDivisors(c) ==
    IF c.segs = <<>> THEN {}
    ELSE LET angs == [i \in DOMAIN c.segs |-> FlipAngN(AngN(c.segs[i]), c.fx, c.fy)]
             b == RoseBins(angs, c.fx, c.fy)
         IN  {b.counts[i] : i \in {j \in DOMAIN b.counts : b.counts[j] > 0}}
             \cup (IF b.total > 0 THEN {b.total} ELSE {})

\* mu_eff, and mu in x_zero = pf - C0/mu under the guard abs(mu) > 1e-12;
\* 1 stands for the substitute 1e-12
MuEff(mu) == IF Abs(mu) > 0 THEN mu ELSE 1

\* every denominator the plotter behind a window key divides by
Divisors(key, c) ==
    CASE key \in {"slip_tendency_map"} -> IF c.segs = <<>> THEN {} ELSE SlipDivisors(c)
      [] key = "slip_tendency_rose" -> SlipDivisors(c) \cup RoseDivisors(c)
      [] key = "dilation_tendency_map" ->
            IF c.segs = <<>> THEN {}
            ELSE SlipDivisors(c) \cup {TdDenom(c.sigma1, c.sigma2)}
      [] key = "dilation_tendency_rose" ->
            SlipDivisors(c) \cup RoseDivisors(c)
                \cup (IF c.segs = <<>> THEN {} ELSE {TdDenom(c.sigma1, c.sigma2)})
      [] key = "susceptibility_map" ->
            IF c.segs = <<>> THEN {} ELSE SlipDivisors(c) \cup {MuEff(c.mu)}
      [] key = "susceptibility_rose" ->
            SlipDivisors(c) \cup RoseDivisors(c)
                \cup (IF c.segs = <<>> THEN {} ELSE {MuEff(c.mu)})
      [] key = "csf_map" -> IF c.segs = <<>> THEN {} ELSE SlipDivisors(c)
      [] key = "csf_rose" -> SlipDivisors(c) \cup RoseDivisors(c)
      [] OTHER -> SlipDivisors(c) \cup {MuEff(c.mu)}

\* the plotter behind a window key, called as _show_plot_window calls it
CallResult(key, c) ==
    IF 0 \in Divisors(key, c) THEN ZeroDivisionError ELSE Plotter(key, c)

InitCall ==
    /\ segments \in SegListsCall
    /\ flip_x \in BOOLEAN
    /\ flip_y \in BOOLEAN
    /\ sp_sigma1 \in Sigma1sCall
    /\ sp_sigma2 \in Sigma2s
    /\ sp_angle \in ThetasCall
    /\ sp_cohesion \in Cohesions
    /\ sp_pore \in Pores
    /\ sp_fric \in FricsCall
    /\ chk = [g \in Range(Groups) |-> FALSE]
    /\ edit_filename = ""
    /\ preview_enabled = FALSE
    /\ tabs_enabled = FALSE
    /\ flip_enabled = FALSE
    /\ run_enabled = FALSE
    /\ plot_windows = [k \in PlotKeys |-> NoWindow]
    /\ clicks = 0
    /\ rb_node = TRUE
    /\ hough_enabled = FALSE
    /\ map_inv = <<FALSE, FALSE>>
    /\ btn_flip = <<FALSE, FALSE>>
    /\ flip_label = <<FALSE, FALSE>>
    /\ chk_traces_segments = FALSE
    /\ chk_show_nodes = [checked |-> FALSE, enabled |-> FALSE]
    /\ chk_traces_by_len = FALSE
    /\ messages = <<>>
    /\ plot = NoPlot
    /\ probe = [a |-> 0, t |-> 0, f |-> 0, hist |-> <<>>]

\* one call of a plotter; probe.hist keeps the key it was called for
CallPlotter(key) ==
    /\ probe.hist = <<>>
    /\ plot' = CallResult(key, Cfg)
    /\ probe' = [probe EXCEPT !.hist = <<key>>]
    /\ UNCHANGED <<segments, flip_x, flip_y, params, chk, edit_filename, preview_enabled,
                   tabs_enabled, flip_enabled, run_enabled, plot_windows, clicks, panel>>

NextCall == \E key \in WindowKeys : CallPlotter(key)

SpecCall == InitCall /\ [][NextCall]_vars

-----------------------------------------------------------------------------
(* Segment.angle_deg (src/fracpy/types.py) as a pure function on 64-bit floats. *)
(* A float is kept as [u, e]: the value u + e*Eps with Eps = 1e-17, where one   *)
(* of u (whole units) and e is 0, since 1 + 1e-17 is not a float.  An angle in  *)
(* degrees is kept as [deg, tiny]: deg whole degrees plus an offset of sign     *)
(* tiny whose magnitude (about 6e-16 degrees) is below 1e-12 and below half the *)
(* spacing of the floats next to 180 (1.4e-14).                                 *)

Fl(u, e) == [u |-> u, e |-> e]

\* coordinates of the end points: 0.0, 1.0 and 1e-17
Coords == {Fl(0, 0), Fl(1, 0), Fl(0, 1)}

Points == Coords \X Coords

\* Segment(x1, y1, x2, y2) for end points that do not coincide
SegmentsAngle ==
    {[x1 |-> p[1], y1 |-> p[2], x2 |-> q[1], y2 |-> q[2]] : <<p, q>> \in {pq \in Points \X Points : pq[1] # pq[2]}}

Reversed(s) == [x1 |-> s.x2, y1 |-> s.y2, x2 |-> s.x1, y2 |-> s.y1]

\* a - b in floats: a difference of units absorbs the 1e-17 parts (1.0 - 1e-17 = 1.0)
FSub(a, b) == IF a.u # b.u THEN Fl(a.u - b.u, 0) ELSE Fl(0, a.e - b.e)

FSgn(v) == IF v.u > 0 \/ v.e > 0 THEN 1 ELSE IF v.u < 0 \/ v.e < 0 THEN -1 ELSE 0

IsUnit(v) == v.u # 0

IsTiny(v) == v.u = 0 /\ v.e # 0

\* degrees(atan2(dy, dx)) for dy, dx of equal magnitude or one of them 0
Atan2Octant(sy, sx) ==
    CASE sy = 0 /\ sx >= 0 -> 0
      [] sy > 0 /\ sx > 0 -> 45
      [] sy > 0 /\ sx = 0 -> 90
      [] sy > 0 /\ sx < 0 -> 135
      [] sy = 0 /\ sx < 0 -> 180
      [] sy < 0 /\ sx < 0 -> -135
      [] sy < 0 /\ sx = 0 -> -90
      [] OTHER -> -45

\* a = degrees(atan2(dy, dx)), in (-180, 180]: a 1e-17 against a unit leaves the
\* direction of the unit, except next to 0 where the float keeps the small angle
Atan2Deg(dy, dx) ==
    CASE IsTiny(dy) /\ IsUnit(dx) ->
             IF dx.u > 0 THEN [deg |-> 0, tiny |-> FSgn(dy)]
             ELSE [deg |-> 180 * FSgn(dy), tiny |-> 0]
      [] IsUnit(dy) /\ IsTiny(dx) -> [deg |-> 90 * FSgn(dy), tiny |-> 0]
      [] OTHER -> [deg |-> Atan2Octant(FSgn(dy), FSgn(dx)), tiny |-> 0]

\* a180 = a % 180.0: the result takes the sign of 180.0, and 180 minus an offset
\* below half the float spacing rounds to 180.0
Mod180(a) ==
    IF a.tiny < 0 THEN [deg |-> 180, tiny |-> 0] ELSE [deg |-> a.deg % 180, tiny |-> a.tiny]

\* return 0.0 if abs(a180) < 1e-12 else a180
SnapZero(a180) == IF a180.deg = 0 THEN 0 ELSE a180.deg

angle_deg(s) ==
    LET dx == FSub(s.x2, s.x1)
        dy == FSub(s.y2, s.y1)
    IN  SnapZero(Mod180(Atan2Deg(dy, dx)))

NotCalled == [kind |-> "angle_deg", fwd |-> "none", rev |-> "none"]

InitAngle ==
    /\ InitGui
    /\ plot = NotCalled
    /\ \E s \in SegmentsAngle : probe = [seg |-> s, hist |-> <<>>]

\* s.angle_deg()
CallAngleDeg ==
    /\ plot.fwd = "none"
    /\ plot' = [plot EXCEPT !.fwd = <<angle_deg(probe.seg)>>]
    /\ probe' = [probe EXCEPT !.hist = Append(probe.hist, "fwd")]
    /\ UNCHANGED <<segments, flip_x, flip_y, params, chk, edit_filename, preview_enabled,
                   tabs_enabled, flip_enabled, run_enabled, plot_windows, clicks, panel>>

\* Segment(s.x2, s.y2, s.x1, s.y1).angle_deg()
CallAngleDegReversed ==
    /\ plot.rev = "none"
    /\ plot' = [plot EXCEPT !.rev = <<angle_deg(Reversed(probe.seg))>>]
    /\ probe' = [probe EXCEPT !.hist = Append(probe.hist, "rev")]
    /\ UNCHANGED <<segments, flip_x, flip_y, params, chk, edit_filename, preview_enabled,
                   tabs_enabled, flip_enabled, run_enabled, plot_windows, clicks, panel>>

NextAngle == CallAngleDeg \/ CallAngleDegReversed

SpecAngle == InitAngle /\ [][NextAngle]_vars

-----------------------------------------------------------------------------
(* The text loaders read_segments_txt and read_traces_txt (src/pyfracpaq/io/txt.py). *)
(* A file is a sequence of lines, a line a sequence of characters; a coordinate *)
(* is the fraction <<num, den>> its token denotes, so that "1", "1.0", "1." and *)
(* "01" are the same number.                                                    *)

MaxLines == 2

Digits == {"0", "1"}

DigitVal(ch) == IF ch = "1" THEN 1 ELSE 0

\* lines of a trace file: blank, comment, one segment, a repeated point, a polyline
\* with a leading duplicate, a polyline with an inner duplicate written differently,
\* comma separated, too short, a non-numeric tail, an odd count, a non-numeric
\* field, an empty comma field, and a polyline that returns to a point written
\* differently, and a comment holding the byte 0xE9 ("e" acute in Latin-1), which is
\* not valid UTF-8
SampleLines ==
    {<<"#", "0xE9">>,
     <<" ">>,
     <<"#", " ", "0">>,
     <<"0", " ", "0", " ", "1", " ", "1">>,
     <<"1", " ", "1", " ", "1", " ", "1">>,
     <<"0", " ", "0", " ", "0", " ", "0", " ", "1", " ", "1">>,
     <<"0", " ", "0", " ", "1", " ", "1", " ", "1", ".", "0", " ", "1", " ", "0", " ", "1">>,
     <<"0", ",", "0", ",", " ", "1", ",", "1">>,
     <<" ", "0", " ", "0", " ", " ", "1">>,
     <<"0", " ", "0", " ", "1", " ", "1", " ", "x", " ", "0">>,
     <<"0", " ", "0", " ", "1", " ", "0", " ", "0">>,
     <<"0", " ", "x", " ", "1", " ", "1">>,
     <<"0", ",", ",", "0", ",", "1", ",", "0">>,
     <<"1", " ", "0", " ", "1", ".", " ", "0", " ", "0", "1", " ", "0", " ", "1", " ", "1">>}

TxtFiles == UNION {[1..n -> SampleLines] : n \in 0..MaxLines}

RECURSIVE LStrip(_)
LStrip(s) == IF s # <<>> /\ s[1] = " " THEN LStrip(Tail(s)) ELSE s

RECURSIVE RStrip(_)
RStrip(s) == IF s # <<>> /\ s[Len(s)] = " " THEN RStrip(SubSeq(s, 1, Len(s) - 1)) ELSE s

\* str.strip()
Strip(s) == RStrip(LStrip(s))

\* str.split(sep) over the first k characters: every separator starts a new field
RECURSIVE SplitAt(_, _, _)
SplitAt(line, sep, k) ==
    IF k = 0 THEN << <<>> >>
    ELSE LET r == SplitAt(line, sep, k - 1)
         IN  IF line[k] = sep THEN Append(r, <<>>)
             ELSE [r EXCEPT ![Len(r)] = Append(@, line[k])]

NonEmpty(tok) == tok # <<>>

StripAll(toks) == [i \in DOMAIN toks |-> Strip(toks[i])]

\* parts: split at commas when the line has one, else at white space; empty fields dropped
Parts(line) ==
    IF \E k \in DOMAIN line : line[k] = ","
    THEN SelectSeq(StripAll(SplitAt(line, ",", Len(line))), NonEmpty)
    ELSE SelectSeq(SplitAt(line, " ", Len(line)), NonEmpty)

\* float(tok), read character by character: digits with at most one point
RECURSIVE Scan(_, _)
Scan(tok, k) ==
    IF k = 0 THEN [n |-> 0, d |-> 1, point |-> FALSE, digits |-> 0, ok |-> TRUE]
    ELSE LET p == Scan(tok, k - 1)
             ch == tok[k]
         IN  IF ch \in Digits
             THEN [p EXCEPT !.n = p.n * 10 + DigitVal(ch),
                            !.d = IF p.point THEN p.d * 10 ELSE p.d,
                            !.digits = p.digits + 1]
             ELSE IF ch = "." THEN [p EXCEPT !.ok = p.ok /\ ~p.point, !.point = TRUE]
             ELSE [p EXCEPT !.ok = FALSE]

\* float(tok) does not raise ValueError
IsFloat(tok) == LET p == Scan(tok, Len(tok)) IN p.ok /\ p.digits > 0

FloatOf(tok) == LET p == Scan(tok, Len(tok)) IN Frac(p.n, p.d)

\* a line that is skipped: blank or a comment
Skipped(line) == line = <<>> \/ line[1] = "#"

\* Segment(x1, y1, x2, y2)
Segment(x1, y1, x2, y2) == [x1 |-> x1, y1 |-> y1, x2 |-> x2, y2 |-> y2]

\* the body of the loop of read_segments_txt for one line: the segments it appends
SegmentsOfLine(ln) ==
    LET line == Strip(ln)
        parts == IF Skipped(line) THEN <<>> ELSE Parts(line)
    IN  IF Skipped(line) \/ Len(parts) < 4 THEN <<>>
        ELSE IF \E i \in 1..4 : ~IsFloat(parts[i]) THEN <<>>
        ELSE << Segment(FloatOf(parts[1]), FloatOf(parts[2]), FloatOf(parts[3]), FloatOf(parts[4])) >>

RECURSIVE ReadSegmentsLoop(_, _)
ReadSegmentsLoop(file, k) ==
    IF k = 0 THEN <<>> ELSE ReadSegmentsLoop(file, k - 1) \o SegmentsOfLine(file[k])

FileNotFoundError == [kind |-> "FileNotFoundError"]

UnicodeDecodeError == [kind |-> "UnicodeDecodeError"]

\* p.open("r", encoding="utf-8") decodes strictly: every byte of the file must be
\* part of a valid UTF-8 sequence
Decodes(lines) == \A i \in DOMAIN lines : \A k \in DOMAIN lines[i] : lines[i][k] # "0xE9"

read_segments_txt(f) ==
    IF ~f.exists THEN FileNotFoundError
    ELSE IF ~Decodes(f.lines) THEN UnicodeDecodeError
    ELSE [kind |-> "segments", segments |-> ReadSegmentsLoop(f.lines, Len(f.lines))]

\* vals: the floats of the tokens up to the first non-numeric one
RECURSIVE Vals(_, _)
Vals(parts, k) ==
    IF k = 0 THEN <<>>
    ELSE LET v == Vals(parts, k - 1)
         IN  IF Len(v) = k - 1 /\ IsFloat(parts[k]) THEN Append(v, FloatOf(parts[k])) ELSE v

\* an odd number of values loses its last one
EvenVals(vals) == IF Len(vals) % 2 = 1 THEN SubSeq(vals, 1, Len(vals) - 1) ELSE vals

\* pts = [(vals[i], vals[i + 1]) for i in range(0, len(vals), 2)]
Pts(vals) == [i \in 1..(Len(vals) \div 2) |-> <<vals[2 * i - 1], vals[2 * i]>>]

\* variant of the loop over pts[1:] that never advances prev
RECURSIVE TraceLoopNoAdvance(_, _)
TraceLoopNoAdvance(pts, k) ==
    IF k = 1 THEN [segs |-> <<>>, prev |-> pts[1]]
    ELSE LET r == TraceLoopNoAdvance(pts, k - 1)
             cur == pts[k]
         IN  IF cur = r.prev THEN r
             ELSE [segs |-> Append(r.segs, Segment(r.prev[1], r.prev[2], cur[1], cur[2])),
                   prev |-> r.prev]

\* variant: every later point is joined to the first point of the line
TraceSegsFromFirst(pts) == TraceLoopNoAdvance(pts, Len(pts)).segs

\* the loop over pts[1:] up to pts[k]: a point equal to prev is skipped
RECURSIVE TraceLoop(_, _)
TraceLoop(pts, k) ==
    IF k = 1 THEN [segs |-> <<>>, prev |-> pts[1]]
    ELSE LET r == TraceLoop(pts, k - 1)
             cur == pts[k]
         IN  IF cur = r.prev THEN r
             ELSE [segs |-> Append(r.segs, Segment(r.prev[1], r.prev[2], cur[1], cur[2])),
                   prev |-> cur]

TraceSegs(pts) == TraceLoop(pts, Len(pts)).segs

\* Trace(segs)
Trace(segs) == [segments |-> segs]

\* the body of the loop of read_traces_txt for one line: the traces it appends
TracesOfLine(ln) ==
    LET line == Strip(ln)
        parts == IF Skipped(line) THEN <<>> ELSE Parts(line)
        vals == Vals(parts, Len(parts))
        pts == Pts(EvenVals(vals))
    IN  IF Skipped(line) \/ Len(vals) < 4 \/ Len(pts) < 2 THEN <<>>
        ELSE IF TraceSegs(pts) # <<>> THEN << Trace(TraceSegs(pts)) >> ELSE <<>>

RECURSIVE ReadTracesLoop(_, _)
ReadTracesLoop(file, k) ==
    IF k = 0 THEN <<>> ELSE ReadTracesLoop(file, k - 1) \o TracesOfLine(file[k])

read_traces_txt(f) ==
    IF ~f.exists THEN FileNotFoundError
    ELSE IF ~Decodes(f.lines) THEN UnicodeDecodeError
    ELSE [kind |-> "traces", traces |-> ReadTracesLoop(f.lines, Len(f.lines))]

NotRead == [kind |-> "loader", traces |-> NoPlot, segs |-> NoPlot]

\* the file at the path: missing, or one with up to MaxLines lines
InitLoader ==
    /\ InitGui
    /\ plot = NotRead
    /\ \/ probe = [exists |-> FALSE, lines |-> <<>>, hist |-> <<>>]
       \/ \E file \in TxtFiles : probe = [exists |-> TRUE, lines |-> file, hist |-> <<>>]

CallReadTracesTxt ==
    /\ plot.traces = NoPlot
    /\ plot' = [plot EXCEPT !.traces = read_traces_txt(probe)]
    /\ probe' = [probe EXCEPT !.hist = Append(probe.hist, "read_traces_txt")]
    /\ UNCHANGED <<segments, flip_x, flip_y, params, chk, edit_filename, preview_enabled,
                   tabs_enabled, flip_enabled, run_enabled, plot_windows, clicks, panel>>

CallReadSegmentsTxt ==
    /\ plot.segs = NoPlot
    /\ plot' = [plot EXCEPT !.segs = read_segments_txt(probe)]
    /\ probe' = [probe EXCEPT !.hist = Append(probe.hist, "read_segments_txt")]
    /\ UNCHANGED <<segments, flip_x, flip_y, params, chk, edit_filename, preview_enabled,
                   tabs_enabled, flip_enabled, run_enabled, plot_windows, clicks, panel>>

NextLoader == CallReadTracesTxt \/ CallReadSegmentsTxt

SpecLoader == InitLoader /\ [][NextLoader]_vars

-----------------------------------------------------------------------------
(* rose_hist (src/pyfracpaq/stats/orientation.py) as a pure function.  An angle *)
(* is a float [deg, tiny] as for angle_deg: whole degrees plus an offset of     *)
(* sign tiny and magnitude 1e-17, which only angles of 0 degrees carry.         *)

MaxAngs == 2

Ang(deg, tiny) == [deg |-> deg, tiny |-> tiny]

\* angles_deg: inside and outside [0, 180), on bin edges, and 1e-17 either side of 0
AnglesRose == {Ang(0, 0), Ang(0, -1), Ang(0, 1), Ang(45, 0), Ang(170, 0), Ang(180, 0),
               Ang(-10, 0), Ang(350, 0)}

AngleListsRose == UNION {[1..n -> AnglesRose] : n \in 0..MaxAngs}

BinsRose == {4, 18}

\* np.mod(a, m) on floats: the remainder takes the sign of m, and m minus an offset
\* below half the float spacing at m rounds to m
NpMod(a, m) ==
    IF a.tiny < 0 /\ a.deg % m = 0 THEN Ang(m, 0) ELSE Ang(a.deg % m, a.tiny)

\* a + 180.0: the sum absorbs an offset of 1e-17
Plus180(a) == Ang(a.deg + 180, 0)

\* a_full
AFull(angles, bidirectional) ==
    IF bidirectional
    THEN [k \in DOMAIN angles |-> NpMod(angles[k], 180)]
             \o [k \in DOMAIN angles |-> Plus180(NpMod(angles[k], 180))]
    ELSE [k \in DOMAIN angles |-> NpMod(angles[k], 360)]

\* bins_deg = np.linspace(0.0, 360.0, bins + 1)
BinsDeg(bins) == [i \in 1..(bins + 1) |-> (i - 1) * (360 \div bins)]

NotCounted == -1

\* variant: the last bin is half-open like the others
HistIndexHalfOpen(v, bins) ==
    IF v.deg < 0 \/ v.deg >= 360 \/ (v.deg = 0 /\ v.tiny < 0) THEN NotCounted
    ELSE v.deg \div (360 \div bins)

\* np.histogram: the bin of a value; bins are [edge, next edge), the last one is
\* closed at 360, and a value outside [0, 360] is not counted
HistIndex(v, bins) ==
    IF v.deg < 0 \/ v.deg > 360 \/ (v.deg = 0 /\ v.tiny < 0) \/ (v.deg = 360 /\ v.tiny > 0)
    THEN NotCounted
    ELSE IF v.deg = 360 THEN bins - 1
    ELSE v.deg \div (360 \div bins)

HistCounts(vals, bins) ==
    [i \in 0..(bins - 1) |-> Cardinality({k \in DOMAIN vals : HistIndex(vals[k], bins) = i})]

\* centers_deg = (edges[:-1] + edges[1:]) / 2.0, theta = np.deg2rad(centers_deg)
CentersDeg(bins) ==
    [i \in 0..(bins - 1) |-> Deg2Rad((BinsDeg(bins)[i + 1] + BinsDeg(bins)[i + 2]) \div 2)]

rose_hist(angles_deg, bins, bidirectional) ==
    LET a_full == AFull(angles_deg, bidirectional)
    IN  [kind |-> "rose_hist", a_full |-> a_full,
         theta |-> CentersDeg(bins), counts |-> HistCounts(a_full, bins)]

InitRose ==
    /\ InitGui
    /\ plot = NoPlot
    /\ \E angles \in AngleListsRose, bins \in BinsRose, bidirectional \in BOOLEAN :
          probe = [angles_deg |-> angles, bins |-> bins, bidirectional |-> bidirectional,
                   hist |-> <<>>]

CallRoseHist ==
    /\ plot = NoPlot
    /\ plot' = rose_hist(probe.angles_deg, probe.bins, probe.bidirectional)
    /\ probe' = [probe EXCEPT !.hist = <<"rose_hist">>]
    /\ UNCHANGED <<segments, flip_x, flip_y, params, chk, edit_filename, preview_enabled,
                   tabs_enabled, flip_enabled, run_enabled, plot_windows, clicks, panel>>

NextRose == CallRoseHist

SpecRose == InitRose /\ [][NextRose]_vars

-----------------------------------------------------------------------------
(* TraceMap.all_segments and TraceMap.map_limits (src/fracpy/types.py) as pure  *)
(* functions; coordinates are whole numbers.                                    *)

MaxTraces == 2

\* the segments traces are made of
SegmentsMap ==
    {Segment(0, 0, 1, 1), Segment(-1, 2, 0, 0), Segment(2, -1, 2, 1), Segment(1, 1, 1, 1)}

\* Trace(segments=[...]) with up to two segments
TracesMap == {Trace(segs) : segs \in UNION {[1..n -> SegmentsMap] : n \in 0..2}}

\* TraceMap(traces=[...])
TraceMaps == UNION {[1..n -> TracesMap] : n \in 0..MaxTraces}

\* [s for t in self.traces for s in t.segments]
RECURSIVE AllSegmentsTo(_, _)
AllSegmentsTo(traces, k) ==
    IF k = 0 THEN <<>> ELSE AllSegmentsTo(traces, k - 1) \o traces[k].segments

all_segments(traces) == AllSegmentsTo(traces, Len(traces))

\* variant: only the start points are collected
XsOfStarts(segs) == [k \in DOMAIN segs |-> segs[k].x1]

\* xs after xs.extend([s.x1, s.x2]) for every segment
Xs(segs) == [k \in 1..(2 * Len(segs)) |->
                IF k % 2 = 1 THEN segs[(k + 1) \div 2].x1 ELSE segs[k \div 2].x2]

\* ys after ys.extend([s.y1, s.y2]) for every segment
Ys(segs) == [k \in 1..(2 * Len(segs)) |->
                IF k % 2 = 1 THEN segs[(k + 1) \div 2].y1 ELSE segs[k \div 2].y2]

\* min(xs)
MinOf(xs) == CHOOSE m \in Range(xs) : \A x \in Range(xs) : m <= x

\* max(xs)
MaxOf(xs) == CHOOSE m \in Range(xs) : \A x \in Range(xs) : m >= x

map_limits(traces) ==
    LET xs == Xs(all_segments(traces))
        ys == Ys(all_segments(traces))
    IN  IF xs = <<>> \/ ys = <<>> THEN <<0, 0, 0, 0>>
        ELSE <<MinOf(xs), MaxOf(xs), MinOf(ys), MaxOf(ys)>>

InitMap ==
    /\ InitGui
    /\ plot = NoPlot
    /\ \E traces \in TraceMaps : probe = [traces |-> traces, hist |-> <<>>]

CallMapLimits ==
    /\ plot = NoPlot
    /\ plot' = [kind |-> "map_limits", limits |-> map_limits(probe.traces)]
    /\ probe' = [probe EXCEPT !.hist = <<"map_limits">>]
    /\ UNCHANGED <<segments, flip_x, flip_y, params, chk, edit_filename, preview_enabled,
                   tabs_enabled, flip_enabled, run_enabled, plot_windows, clicks, panel>>

NextMap == CallMapLimits

SpecMap == InitMap /\ [][NextMap]_vars


-----------------------------------------------------------------------------
(* The plotters for segments whose azimuth lies on a sector edge of the roses:    *)
(* strike 80 degrees from east is azimuth 10, strike 30 is azimuth 60, strike 0  *)
(* is azimuth 90.                                                                *)

AngXsEdge == {80, 30, 0}

SegListsEdge == UNION {[1..n -> AngXsEdge] : n \in 1..MaxSegs}

InitEdge ==
    /\ segments \in SegListsEdge
    /\ flip_x \in BOOLEAN
    /\ flip_y \in BOOLEAN
    /\ sp_sigma1 = 100
    /\ sp_sigma2 = 50
    /\ sp_angle = 0
    /\ sp_cohesion = 0
    /\ sp_pore = 0
    /\ sp_fric = 60
    /\ chk = [g \in Range(Groups) |-> FALSE]
    /\ edit_filename = ""
    /\ preview_enabled = FALSE
    /\ tabs_enabled = FALSE
    /\ flip_enabled = FALSE
    /\ run_enabled = FALSE
    /\ plot_windows = [k \in PlotKeys |-> NoWindow]
    /\ clicks = 0
    /\ rb_node = TRUE
    /\ hough_enabled = FALSE
    /\ map_inv = <<FALSE, FALSE>>
    /\ btn_flip = <<FALSE, FALSE>>
    /\ flip_label = <<FALSE, FALSE>>
    /\ chk_traces_segments = FALSE
    /\ chk_show_nodes = [checked |-> FALSE, enabled |-> FALSE]
    /\ chk_traces_by_len = FALSE
    /\ messages = <<>>
    /\ plot = NoPlot
    /\ probe = [a |-> 0, t |-> 0, f |-> 0, hist |-> <<>>]

NextEdge == \E key \in WindowKeys : CallPlotter(key)

SpecEdge == InitEdge /\ [][NextEdge]_vars

-----------------------------------------------------------------------------
(* Properties *)

RoseKinds == {"slip_rose", "dilation_rose", "susceptibility_rose", "csf_rose"}

\* C1: for every segment and every parameter set, the critically-stressed flag the
\* CSF map computes (|tau| >= mu*(|sigma_n| - pf) + C0) equals the test Sf <= 0 on
\* the susceptibility the susceptibility map computes for the same segment.
C1_CsfIsSfNotPositive ==
    plot.kind = "csf_map" =>
        \A i \in DOMAIN plot.vals :
            (plot.vals[i] = 1) <=> SfLeqZero(SfList(Cfg)[i])

C3_RoseBinsProjectedAzimuth ==
    plot.kind \in RoseKinds =>
        LET n == Len(plot.angs)
        IN  \A i \in 1..n :
                {plot.bins.theta[i], plot.bins.theta[n + i]}
                    = {Deg2Rad(plot.angs[i]), Deg2Rad((plot.angs[i] + 180) % 360)}

\* C4: flip-X applied twice, and flip-Y applied twice, give back the azimuth, both
\* in the rose transform (t) and in the projection step's fold (f).
C4_FlipTwiceIsIdentity ==
    (probe.hist = <<"X", "X">> \/ probe.hist = <<"Y", "Y">>) =>
        /\ probe.t = Deg2Rad(probe.a)
        /\ probe.f = probe.a % 180

C4_FlippedTwice ==
    /\ probe.hist \in {<<"X", "X">>, <<"Y", "Y">>}
    /\ probe.a = 200
    /\ probe.t = Deg2Rad(200)

\* C5 as stated: there is an azimuth (the probed one or any other of the grid) for
\* which flip-X then flip-Y gives another normalised result than flip-Y then flip-X.
C5_FlipsDoNotCommute ==
    \E a \in Azimuths \cup {probe.a} :
        RoseFlip(RoseFlip(Deg2Rad(a), TRUE, FALSE), FALSE, TRUE)
            # RoseFlip(RoseFlip(Deg2Rad(a), FALSE, TRUE), TRUE, FALSE)

\* C5 as amended: the two flips commute: in either order they give the half turn
\* a + pi (mod 2*pi), which is also what the code's X-before-Y transform gives.
C5_FlipsCommute ==
    (probe.hist = <<"X", "Y">> \/ probe.hist = <<"Y", "X">>) =>
        /\ probe.t = (Deg2Rad(probe.a) + Pi) % (2 * Pi)
        /\ probe.t = RoseFlip(Deg2Rad(probe.a), TRUE, TRUE)

C5_FlippedYThenX ==
    /\ probe.hist = <<"Y", "X">>
    /\ probe.a = 35
    /\ probe.t = 215

\* a fraction in [0, 1]
In01(x) == x[2] > 0 /\ 0 <= x[1] /\ x[1] <= x[2]

\* C6: every TsNorm and every Td the engine produces lies in [0, 1], for every
\* segment list, sigma1, sigma2 (equal, or sigma1 < sigma2) and theta.
C6_TendenciesInUnitInterval ==
    /\ plot.kind \in {"slip_map", "dilation_map"} =>
            \A i \in DOMAIN plot.vals : In01(plot.vals[i])
    /\ plot.kind \in {"slip_rose", "dilation_rose"} =>
            \A k \in DOMAIN plot.vals2 : In01(plot.vals2[k])

\* a slip map with sigma1 < sigma2, theta # 0, whose raw ratio exceeds Tsmax
C6_ClampedSlipMap ==
    /\ plot.kind = "slip_map"
    /\ sp_sigma1 < sp_sigma2
    /\ sp_angle # 0
    /\ \E i \in DOMAIN plot.vals :
          /\ plot.vals[i] = ROne
          /\ RLess(SlipArrays(Cfg).Tsmax,
                   RatiosTheta(segments, flip_x, flip_y, sp_sigma1, sp_sigma2, sp_angle)[i])

\* the reference ratios |tau0|/|sigma_n0|: alpha0 = angN + 90, theta = 0, no flip
RefRatios == RatiosTheta(segments, FALSE, FALSE, sp_sigma1, sp_sigma2, 0)

\* C7: Tsmax is the same for every theta, flip-X and flip-Y: it is the maximum of
\* the reference ratios, and 1 when that maximum is <= 0 or there is no segment;
\* the slip map shows the display ratios normalised by it.
C7_TsmaxIndependentOfThetaAndFlips ==
    LET T == SlipArrays(Cfg).Tsmax
    IN  /\ T = SlipArrays([Cfg EXCEPT !.theta = 0, !.fx = FALSE, !.fy = FALSE]).Tsmax
        /\ IF \A i \in DOMAIN RefRatios : RLeq(RefRatios[i], RZero)
           THEN T = ROne
           ELSE /\ \E i \in DOMAIN RefRatios : T = RefRatios[i]
                /\ \A i \in DOMAIN RefRatios : RLeq(RefRatios[i], T)
        /\ plot.kind = "slip_map" =>
              \A i \in DOMAIN plot.vals :
                  plot.vals[i] = TsNormOf(
                      RatiosTheta(segments, flip_x, flip_y, sp_sigma1, sp_sigma2, sp_angle)[i],
                      T)

\* a slip map drawn with theta # 0 and a flip, where a display ratio differs from
\* every reference ratio
C7_RotatedSlipMap ==
    /\ plot.kind = "slip_map"
    /\ sp_angle # 0
    /\ flip_x
    /\ SlipArrays(Cfg).Tsmax # ROne
    /\ \E i \in DOMAIN plot.vals :
          RLess(SlipArrays(Cfg).Tsmax,
                RatiosTheta(segments, flip_x, flip_y, sp_sigma1, sp_sigma2, sp_angle)[i])

\* the smallest value of the ladder that is >= 100 * m / t, and 50 if there is none
LadderOf(m, t) ==
    LET fit == {p \in {1, 5, 10, 20, 30, 50} : 100 * m <= p * t}
    IN  IF fit = {} THEN 50 ELSE CHOOSE p \in fit : \A q \in fit : p <= q

\* C8: the outer reference level of each of the four stress roses is the smallest
\* ladder value >= max(fraction)*100 (50 if none), so a function of the bin counts
\* alone, and a largest bin fraction of 25% selects 30.
C8_AdaptiveRing ==
    plot.kind \in RoseKinds =>
        LET m == MaxCount(plot.bins.counts, DirBins - 1)
        IN  /\ plot.show_to_perc = LadderOf(m, plot.bins.total)
            /\ 4 * m = plot.bins.total => plot.show_to_perc = 30

C8_QuarterSelectsThirty ==
    /\ plot.kind = "csf_rose"
    /\ plot.bins.max_frac = <<1, 4>>
    /\ plot.show_to_perc = 30

Occupied(counts) == {i \in DOMAIN counts : counts[i] > 0}

\* C10: each bin's radius is the square root of count/total (in thousandths, rounded
\* down), and 0 when the total is 0; when the mirrored azimuths fall evenly into 4
\* bins each of them has fraction 1/4 and radius 0.5 and the ring is 30%.
C10_EqualAreaRadius ==
    plot.kind \in RoseKinds =>
        LET b == plot.bins
        IN  /\ \A i \in DOMAIN b.counts :
                  IF b.total > 0
                  THEN /\ b.radii[i] * b.radii[i] * b.total <= b.counts[i] * 1000000
                       /\ b.counts[i] * 1000000 < (b.radii[i] + 1) * (b.radii[i] + 1) * b.total
                  ELSE b.radii[i] = 0
            /\ (/\ Cardinality(Occupied(b.counts)) = 4
                /\ \A i \in Occupied(b.counts) : 4 * b.counts[i] = b.total)
                  => /\ \A i \in Occupied(b.counts) : b.radii[i] = 500
                     /\ b.max_frac = <<1, 4>>
                     /\ plot.show_to_perc = 30

C10_FourEvenBins ==
    /\ plot.kind = "dilation_rose"
    /\ Cardinality(Occupied(plot.bins.counts)) = 4
    /\ \A i \in Occupied(plot.bins.counts) : plot.bins.radii[i] = 500
    /\ plot.show_to_perc = 30

\* the sum of vals[k] over the positions k of K
RECURSIVE SumOver(_, _)
SumOver(vals, K) ==
    IF K = {} THEN RZero
    ELSE LET k == CHOOSE x \in K : TRUE
         IN  RAdd(vals[k], SumOver(vals, K \ {k}))

\* the mirrored members of bin i
Members(i) == {k \in DOMAIN plot.bins.inds : plot.bins.inds[k] = i}

\* sum / count as a fraction
MeanIs(mean, sum, count) == mean = Frac(sum[1], sum[2] * count)

\* C11: every stress rose has all 36 bins; the mean of a bin is the sum of the scalar
\* over its mirrored members divided by their number, and 0 for a bin without member.
C11_BinMeanIsSumOverCount ==
    plot.kind \in RoseKinds =>
        /\ DOMAIN plot.means = 0..(DirBins - 1)
        /\ DOMAIN plot.bins.counts = 0..(DirBins - 1)
        /\ \A i \in 0..(DirBins - 1) :
              LET K == Members(i)
              IN  /\ plot.bins.counts[i] = Cardinality(K)
                  /\ IF plot.kind = "susceptibility_rose"
                     THEN IF K = {}
                          THEN plot.means[i] = [big |-> RZero, val |-> RZero]
                          ELSE /\ MeanIs(plot.means[i].big,
                                         SumOver([k \in DOMAIN plot.vals2 |->
                                                     <<plot.vals2[k].big, 1>>], K),
                                         Cardinality(K))
                               /\ MeanIs(plot.means[i].val,
                                         SumOver([k \in DOMAIN plot.vals2 |->
                                                     plot.vals2[k].val], K),
                                         Cardinality(K))
                     ELSE IF K = {}
                          THEN plot.means[i] = RZero
                          ELSE MeanIs(plot.means[i],
                                      SumOver(IF plot.kind = "csf_rose"
                                              THEN FlagsAsFractions(plot.vals2)
                                              ELSE plot.vals2, K),
                                      Cardinality(K))

\* a slip rose with a bin of two members of different slip tendency, whose mean
\* lies strictly between them
C11_TwoMembersOneBin ==
    /\ plot.kind = "slip_rose"
    /\ \E i \in 0..(DirBins - 1) :
          /\ plot.bins.counts[i] = 2
          /\ \E k1, k2 \in Members(i) :
                /\ RLess(plot.vals2[k1], plot.means[i])
                /\ RLess(plot.means[i], plot.vals2[k2])
    /\ \E i \in 0..(DirBins - 1) : plot.bins.counts[i] = 0 /\ plot.means[i] = RZero

\* the critically stressed members of bin i of a CSF rose
CsfMembers(i) == {k \in Members(i) : plot.vals2[k] = 1}

\* C12 as stated: a bin of the CSF rose is classified CSF if and only if more than
\* half of its mirrored members are critically stressed.
C12_CsfIffMoreThanHalf ==
    plot.kind = "csf_rose" =>
        \A i \in 0..(DirBins - 1) :
            (plot.classes[i] = 1)
                <=> (2 * Cardinality(CsfMembers(i)) > Cardinality(Members(i)))

\* C12 as amended: a bin of the CSF rose is classified CSF if and only if it has a
\* member and at least half of its mirrored members are critically stressed (bin
\* mean >= 0.5); a bin without member is Non-CSF.
C12_CsfIffAtLeastHalf ==
    plot.kind = "csf_rose" =>
        \A i \in 0..(DirBins - 1) :
            (plot.classes[i] = 1)
                <=> (/\ Members(i) # {}
                     /\ 2 * Cardinality(CsfMembers(i)) >= Cardinality(Members(i)))

\* a bin with two members, one of them critically stressed, classified CSF
C12_HalfCriticalBin ==
    /\ plot.kind = "csf_rose"
    /\ \E i \in 0..(DirBins - 1) :
          /\ Cardinality(Members(i)) = 2
          /\ Cardinality(CsfMembers(i)) = 1
          /\ plot.means[i] = <<1, 2>>
          /\ plot.classes[i] = 1

\* the key of the plotter that was called
Called == probe.hist[1]

C14_NoDivisionByZero ==
    /\ probe.hist # <<>> =>
          /\ plot.kind # "ZeroDivisionError"
          /\ 0 \notin Divisors(Called, Cfg)
    /\ \A i \in DOMAIN segments :
          SlipArrays(Cfg).sigmans[i] = 0 =>
              RatiosTheta(segments, flip_x, flip_y, sp_sigma1, sp_sigma2, sp_angle)[i] = RZero
    /\ sp_sigma1 = sp_sigma2 =>
          /\ TdDenom(sp_sigma1, sp_sigma2) = 1
          /\ SlipArrays(Cfg).Tsmax = ROne
    /\ sp_fric = 0 => MuEff(sp_fric) # 0
    /\ plot.kind \in RoseKinds => plot.bins.total > 0

\* a dilation rose drawn for sigma1 = sigma2
C14_DilationWithEqualStresses ==
    /\ probe.hist = <<"dilation_tendency_rose">>
    /\ sp_sigma1 = sp_sigma2
    /\ plot.kind = "dilation_rose"
    /\ \A k \in DOMAIN plot.vals2 : plot.vals2[k] = RZero

\* sigma1 = 100, sigma2 = 50, theta = 0, no flip, one segment with X-angle 0,
\* mu = 0.6, C0 = 0, pf = 0
ScenarioD ==
    /\ segments = <<0>>
    /\ sp_sigma1 = 100 /\ sp_sigma2 = 50 /\ sp_angle = 0
    /\ ~flip_x /\ ~flip_y
    /\ sp_fric = 60 /\ sp_cohesion = 0 /\ sp_pore = 0

C16_PointsOnMohrCircle ==
    (plot.kind = "mohr" /\ sp_angle = 0 /\ ~flip_x /\ ~flip_y) =>
        /\ plot.center = sp_sigma1 + sp_sigma2
        /\ plot.radius = Abs(sp_sigma1 - sp_sigma2)
        /\ \A i \in DOMAIN plot.sigmans :
              LET dx == plot.sigmans[i] - 100 * plot.center
                  r == 100 * plot.radius
              IN  Abs(dx * dx + plot.taus[i] * plot.taus[i] - r * r) <= (r * r) \div 50

\* a Mohr diagram of two segments off the principal directions
C16_ObliqueSegmentsOnCircle ==
    /\ plot.kind = "mohr"
    /\ sp_angle = 0 /\ ~flip_x /\ ~flip_y
    /\ sp_sigma1 # sp_sigma2
    /\ segments = <<25, 30>>
    /\ \A i \in DOMAIN plot.taus : plot.taus[i] # 0

Seg(x1, y1, x2, y2) == [x1 |-> Fl(x1, 0), y1 |-> Fl(y1, 0), x2 |-> Fl(x2, 0), y2 |-> Fl(y2, 0)]

\* C17: for end points that do not coincide angle_deg() is in [0, 180), never
\* negative and never 180, a value next to 0 being returned as 0; a segment along
\* +X gives 0, one along +Y gives 90, and one towards (-1, -1) gives 45.
C17_AngleInHalfOpenRange ==
    /\ plot.fwd # "none" =>
          /\ plot.fwd[1] >= 0
          /\ plot.fwd[1] < 180
    /\ plot.rev # "none" =>
          /\ plot.rev[1] >= 0
          /\ plot.rev[1] < 180
    /\ probe.seg = Seg(0, 0, 1, 0) /\ plot.fwd # "none" => plot.fwd = <<0>>
    /\ probe.seg = Seg(0, 0, 0, 1) /\ plot.fwd # "none" => plot.fwd = <<90>>
    /\ probe.seg = Seg(0, 0, 1, 1) /\ plot.rev # "none" => plot.rev = <<45>>

\* C18: angle_deg() does not depend on the order of the end points: the segment
\* (x1, y1) -> (x2, y2) and the segment (x2, y2) -> (x1, y1) give the same value.
C18_AngleIndependentOfOrder ==
    (plot.fwd # "none" /\ plot.rev # "none") => plot.fwd = plot.rev

\* the traces read_traces_txt returned, if it was called and returned
ReturnedTraces ==
    IF plot.traces.kind = "traces" THEN plot.traces.traces ELSE <<>>

\* the segments read_segments_txt returned, if it was called and returned
ReturnedSegments ==
    IF plot.segs.kind = "segments" THEN plot.segs.segments ELSE <<>>

\* C19: every Trace returned by read_traces_txt has at least one segment, and the end
\* point of each of its segments is the start point of the next one, also when
\* consecutive duplicate points of the line were skipped.
C19_TracesContiguous ==
    \A t \in DOMAIN ReturnedTraces :
        LET segs == ReturnedTraces[t].segments
        IN  /\ Len(segs) >= 1
            /\ \A i \in 1..(Len(segs) - 1) :
                  /\ segs[i].x2 = segs[i + 1].x1
                  /\ segs[i].y2 = segs[i + 1].y1

\* a line with an inner duplicate point written as "1.0 1" gives a trace of two segments
C19_DuplicateSkippedInPolyline ==
    /\ probe.lines = << <<"0", " ", "0", " ", "1", " ", "1", " ", "1", ".", "0", " ", "1", " ", "0", " ", "1">> >>
    /\ plot.traces.kind = "traces"
    /\ Len(plot.traces.traces) = 1
    /\ Len(plot.traces.traces[1].segments) = 2

Degenerate(s) == s.x1 = s.x2 /\ s.y1 = s.y2

\* C20: no Segment returned by read_traces_txt or by read_segments_txt has
\* (x1, y1) equal to (x2, y2), whatever the file holds.
C20_NoDegenerateSegment ==
    /\ \A t \in DOMAIN ReturnedTraces :
          \A i \in DOMAIN ReturnedTraces[t].segments : ~Degenerate(ReturnedTraces[t].segments[i])
    /\ \A i \in DOMAIN ReturnedSegments : ~Degenerate(ReturnedSegments[i])

\* C21: for any content of an existing file neither loader raises; a file whose
\* lines are all blank, comments or have fewer than four leading numbers yields
\* nothing, and the lines that are well formed contribute in file order.
C21_LoadersNeverRaise ==
    probe.exists =>
        /\ plot.traces.kind \in {"none", "traces"}
        /\ plot.segs.kind \in {"none", "segments"}
        /\ (\A i \in DOMAIN probe.lines :
               LET line == Strip(probe.lines[i])
               IN  Skipped(line) \/ Len(Vals(Parts(line), Len(Parts(line)))) < 4) =>
              /\ ReturnedTraces = <<>>
              /\ ReturnedSegments = <<>>
        /\ plot.traces.kind = "traces" =>
              ReturnedTraces = ReadTracesLoop(probe.lines, Len(probe.lines))

\* the sum of the counts of a histogram
RECURSIVE SumTo(_, _)
SumTo(counts, i) == IF i < 0 THEN 0 ELSE counts[i] + SumTo(counts, i - 1)

\* every value of a_full lies in exactly one sector [edge, next edge], sectors being
\* the bins equal-width ones from 0 to 360, and the counts sum to the number of values
CountedOnce ==
    LET n == Len(probe.angles_deg)
        width == 360 \div probe.bins
    IN  /\ Len(plot.a_full) = IF probe.bidirectional THEN 2 * n ELSE n
        /\ SumTo(plot.counts, probe.bins - 1) = Len(plot.a_full)
        /\ DOMAIN plot.counts = 0..(probe.bins - 1)
        /\ \A i \in 0..(probe.bins - 1) :
              /\ plot.theta[i] = i * width + width \div 2
              /\ plot.counts[i] <= Cardinality({k \in DOMAIN plot.a_full :
                                       /\ plot.a_full[k].deg >= i * width
                                       /\ plot.a_full[k].deg <= (i + 1) * width})

\* C22 as stated: with bidirectional=True every angle is folded into [0, 180) and
\* copied at +180, all 2N values are counted exactly once in bins equal-width sectors
\* over 0-360 whose centres are the edge midpoints, so the counts sum to 2N; with
\* bidirectional=False they sum to N.
C22_FoldedHalfOpenAndCounted ==
    plot.kind = "rose_hist" =>
        /\ CountedOnce
        /\ probe.bidirectional =>
              \A k \in DOMAIN probe.angles_deg :
                  /\ plot.a_full[k].deg >= 0
                  /\ plot.a_full[k].deg < 180
                  /\ plot.a_full[k + Len(probe.angles_deg)].deg = plot.a_full[k].deg + 180

\* C22 as amended: the fold np.mod(a, 180.0) gives a value in [0, 180], 180.0 itself
\* for a negative angle too small to be told from 180 after the fold; the copy is at
\* +180, in [180, 360]; all 2N values are counted exactly once, the last sector
\* including 360, so the counts sum to 2N, and to N with bidirectional=False.
C22_FoldedClosedAndCounted ==
    plot.kind = "rose_hist" =>
        /\ CountedOnce
        /\ probe.bidirectional =>
              \A k \in DOMAIN probe.angles_deg :
                  /\ plot.a_full[k].deg >= 0
                  /\ plot.a_full[k].deg <= 180
                  /\ plot.a_full[k].deg = 180 => probe.angles_deg[k].tiny < 0
                  /\ plot.a_full[k + Len(probe.angles_deg)].deg = plot.a_full[k].deg + 180

\* the angle -1e-17 is folded to 180.0, its copy 360.0 is counted in the last sector
C22_CopyOnLastEdge ==
    /\ plot.kind = "rose_hist"
    /\ probe.bidirectional
    /\ probe.bins = 18
    /\ probe.angles_deg = <<Ang(0, -1)>>
    /\ plot.a_full = <<Ang(180, 0), Ang(360, 0)>>
    /\ plot.counts[9] = 1
    /\ plot.counts[17] = 1

\* the end points of all segments of all traces of the map
EndPoints ==
    UNION {{<<probe.traces[t].segments[i].x1, probe.traces[t].segments[i].y1>>,
            <<probe.traces[t].segments[i].x2, probe.traces[t].segments[i].y2>>} :
              <<t, i>> \in {ti \in (DOMAIN probe.traces) \X (1..2) :
                               ti[2] \in DOMAIN probe.traces[ti[1]].segments}}

\* C23: map_limits() returns (xmin, xmax, ymin, ymax), the minimum and maximum over
\* the end points of all segments of all traces: xmin <= xmax, ymin <= ymax, every
\* end point is inside the box and each side of the box touches an end point; for a
\* map without segments it returns (0, 0, 0, 0).
C23_MapLimitsBoundAllEndPoints ==
    plot.kind = "map_limits" =>
        LET l == plot.limits
        IN  IF EndPoints = {} THEN l = <<0, 0, 0, 0>>
            ELSE /\ l[1] <= l[2]
                 /\ l[3] <= l[4]
                 /\ \A p \in EndPoints : l[1] <= p[1] /\ p[1] <= l[2] /\ l[3] <= p[2] /\ p[2] <= l[4]
                 /\ \E p \in EndPoints : p[1] = l[1]
                 /\ \E p \in EndPoints : p[1] = l[2]
                 /\ \E p \in EndPoints : p[2] = l[3]
                 /\ \E p \in EndPoints : p[2] = l[4]

\* a map of an empty trace and a trace whose extreme x is an end point of a segment
C23_LimitsOfTwoTraces ==
    /\ plot.kind = "map_limits"
    /\ probe.traces = <<Trace(<<>>), Trace(<<Segment(0, 0, 1, 1), Segment(-1, 2, 0, 0)>>)>>
    /\ plot.limits = <<-1, 1, 0, 2>>

\* the orders in which n segments can be processed
Perms(n) == {f \in [1..n -> 1..n] : \A i, j \in 1..n : f[i] = f[j] => i = j}

\* the per-segment sequence q holds the values of p in the order f
Permuted(q, p, f) == DOMAIN q = DOMAIN p /\ \A i \in DOMAIN q : q[i] = p[f[i]]

\* C24: processing the segments in another order leaves Tsmax, every rose bin's count
\* and mean, the maximum fraction and the reference ring unchanged, and gives the
\* per-segment values (sigma_n, tau, TsNorm, Td, Sf, CSF) in the permuted order.
C24_OrderOfSegmentsIrrelevant ==
    probe.hist # <<>> =>
        \A f \in Perms(Len(segments)) :
            LET c2 == [Cfg EXCEPT !.segs = [i \in DOMAIN segments |-> segments[f[i]]]]
                a == SlipArrays(Cfg)
                a2 == SlipArrays(c2)
                p2 == Plotter(Called, c2)
            IN  /\ a2.Tsmax = a.Tsmax
                /\ Permuted(a2.sigmans, a.sigmans, f)
                /\ Permuted(a2.taus, a.taus, f)
                /\ Permuted(a2.TsNorm, a.TsNorm, f)
                /\ p2.kind = plot.kind
                /\ plot.kind \in {"slip_map", "dilation_map", "susceptibility_map", "csf_map"} =>
                      Permuted(p2.vals, plot.vals, f)
                /\ plot.kind \in RoseKinds =>
                      /\ p2.bins.counts = plot.bins.counts
                      /\ p2.bins.max_frac = plot.bins.max_frac
                      /\ p2.bins.radii = plot.bins.radii
                      /\ p2.means = plot.means
                      /\ p2.show_to_perc = plot.show_to_perc

\* a slip rose of two segments of which only the second has a positive reference ratio
C24_RoseOfTwoDifferentSegments ==
    /\ probe.hist = <<"slip_tendency_rose">>
    /\ segments = <<0, 25>>
    /\ sp_sigma2 = 50
    /\ plot.kind = "slip_rose"
    /\ SlipArrays(Cfg).TsNorm[1] # SlipArrays(Cfg).TsNorm[2]


-----------------------------------------------------------------------------
(* The left panel, the preview and the Run button *)

\* C25 (as stated): in every reachable state of the window the four Hough fields
\* are disabled.
C25_HoughFieldsAlwaysDisabled == ~hough_enabled

\* C25 (amended): the four Hough fields are enabled exactly while the radio button
\* "Image file" is selected; they are disabled at start and whenever "Node file"
\* is selected.
C25_HoughFieldsFollowImageFile == hough_enabled <=> ~rb_node

\* the user has selected "Image file", and later browsed for a file
C25_ImageFileSelected == ~rb_node /\ hough_enabled /\ edit_filename # "" /\ clicks >= 2


\* the sector opposite sector i
Antipode(i) == (i + DirBins \div 2) % DirBins

\* a rose has been drawn
RoseDrawn ==
    /\ probe.hist # <<>>
    /\ IsPolar(probe.hist[1])
    /\ plot # NoPlot
    /\ plot # ZeroDivisionError

\* C26: in every stress rose, for every flip configuration, opposite sectors hold
\* the same count and the same mean, so no sector holds more than half of the
\* mirrored total, the chosen reference circle is one of the ladder that the largest
\* percentage fits under, and no bar is longer than the radial limit.
C26_RoseAntipodallySymmetric ==
    RoseDrawn =>
        /\ \A i \in 0..(DirBins - 1) :
              /\ plot.bins.counts[i] = plot.bins.counts[Antipode(i)]
              /\ plot.means[i] = plot.means[Antipode(i)]
        /\ RLeq(plot.bins.max_frac, <<1, 2>>)
        /\ PercFits(MaxPerc(plot.bins.max_frac), plot.show_to_perc)
        /\ \A i \in 0..(DirBins - 1) : plot.bins.radii[i] <= plot.r_edge


\* what the plotter just called returns for the same segments and stress values
\* with neither flip set
WithoutFlips == CallResult(probe.hist[1], [Cfg EXCEPT !.fx = FALSE, !.fy = FALSE])

\* C27: with both flips set, every per-segment stress output (azimuth, sigma_n, tau,
\* TsNorm, Td, Sf, CSF) and every rose sector's count and mean is the same as with
\* neither flip set.
C27_BothFlipsSameAsNone ==
    (probe.hist # <<>> /\ flip_x /\ flip_y /\ plot # ZeroDivisionError) =>
        IF IsPolar(probe.hist[1])
        THEN /\ plot.angs = WithoutFlips.angs
             /\ plot.vals2 = WithoutFlips.vals2
             /\ plot.bins.counts = WithoutFlips.bins.counts
             /\ plot.means = WithoutFlips.means
        ELSE plot = WithoutFlips


\* C28: after any sequence of loads, previews, save-figure actions and flip clicks the
\* preview map's X axis is inverted exactly when the flip-X flag is set and its Y axis
\* exactly when the flip-Y flag is set, and the flip buttons' checked state, the
\* status-bar indicator and the title suffix of every plot window agree with the flags.
C28_PreviewAgreesWithFlags ==
    /\ map_inv = <<flip_x, flip_y>>
    /\ btn_flip = <<flip_x, flip_y>>
    /\ flip_label = <<flip_x, flip_y>>
    /\ \A k \in PlotKeys :
          plot_windows[k].created => plot_windows[k].title_flip = <<flip_x, flip_y>>


\* some check box of the Maps tab is checked
AnyChecked ==
    \E g \in DOMAIN MapsChecks(chk, chk_traces_segments, chk_show_nodes, chk_traces_by_len) :
        MapsChecks(chk, chk_traces_segments, chk_show_nodes, chk_traces_by_len)[g]

\* C29: after any sequence of check-box toggles, loads and previews the Run button is
\* enabled if and only if a non-empty segment list is loaded and at least one check
\* box of the Maps tab is checked; without segments Run is disabled and no plot
\* window has been opened.
C29_RunEnabledIffDataAndCheck ==
    /\ run_enabled <=> (segments # <<>> /\ AnyChecked)
    /\ segments = <<>> =>
          /\ ~run_enabled
          /\ \A k \in PlotKeys : ~plot_windows[k].created

\* segments are loaded and Run has opened a window, then the last box was unchecked
\* with its subordinate box: Run is disabled again
C29_RunDisabledAfterUncheck ==
    /\ segments # <<>>
    /\ ~AnyChecked
    /\ ~run_enabled
    /\ plot_windows["traces_nodes"].created


\* a step in which load_file fails: the file gives no trace and the message box appears
LoadFails ==
    /\ ReadSegments(edit_filename) = <<>>
    /\ messages' = Append(messages, LoadMessage(edit_filename))

\* C30: a failed load (the reader raises, or the file yields no traces) leaves the
\* loaded segments, the flip flags and the enablement of the flip buttons, the tabs
\* and the Run button exactly as before the attempt.
C30_FailedLoadChangesNothing ==
    [][LoadFails => UNCHANGED <<segments, flip_x, flip_y, flip_enabled, tabs_enabled,
                                run_enabled>>]_vars

\* a load has failed after segments were loaded, flipped and selected for Run:
\* all of that is still in place
C30_FailedLoadAfterLoad ==
    /\ segments = <<45>>
    /\ edit_filename = "missing.txt"
    /\ messages = <<"Error">>
    /\ flip_x
    /\ flip_enabled
    /\ tabs_enabled
    /\ run_enabled

=============================================================================
